---- MODULE Spec2Model ----
(***************************************************************************)
(* Acquisition -> Quality Gate -> Enrichment pipeline of the Memphis       *)
(* monorepo: the two run orchestrators (ScraperOrchestrator.run for        *)
(* tweets, YouTubeCollector.run for comments), the quality gate            *)
(* (DQMService / YouTubeDQMService) and the retry loop of                  *)
(* TwitterScraper.searchTweets.                                            *)
(*                                                                         *)
(* Spec        runs of an orchestrator, one after another, over one store  *)
(* SpecGate    the quality gate applied to every combination of rule       *)
(*             outcomes                                                    *)
(* SpecSearch  TwitterScraper.searchTweets: throttle, retry loop, scroll   *)
(*             loop                                                        *)
(***************************************************************************)
EXTENDS Integers, Sequences, FiniteSets, TLC

\* ---------------------------------------------------------------- bounds
MaxId == 1      \* external ids are 1..MaxId
MaxUnits == 2   \* search keywords (tweets) or whitelisted videos per run
MaxBatch == 1   \* items one unit of work returns
MaxRuns == 2    \* runs executed one after another
MaxBacklog == 101  \* enriched rows waiting in placeholder state
MaxWords == 3   \* words of a generated text
MaxAggRows == 2 \* enriched rows and verdicts of the day being aggregated
MaxAggCalls == 2 \* invocations of updateDailyAggregation per caller
MaxCap == 3      \* largest maxComments of a whitelisted video
MaxReplies == 2  \* replies the API embeds in the threads of one page
MaxClock == 40000 \* the clock stops here (ms)
MaxElements == 2 \* article elements on the listing page
MaxPasses == 2   \* listing passes of one search
MaxTweets == 2   \* largest maxTweets of a search
MaxScrolls == 5  \* turns of the scroll loop followed in one search
MaxRaceItems == 2 \* external ids two concurrent runs both meet
MaxEnrichRows == 2 \* placeholder rows two concurrent enrichments find

Ids == 1..MaxId
Platforms == {"twitter", "youtube"}

\* ------------------------------------------------------- quality gate
\* Scores are kept in hundredths (1.0 is 100): every weight and threshold
\* of the source is a multiple of 0.05, and the pass decision in hundredths
\* equals the decision on the source's doubles for every rule combination.
FullScore == 100

TwitterQualityThreshold == 60
YouTubeQualityThreshold == 50

Max0(x) == IF x < 0 THEN 0 ELSE x

TwitterChecks ==
  [isDuplicate : BOOLEAN, isLanguageValid : BOOLEAN, isMinLength : BOOLEAN,
   isMaxLength : BOOLEAN, isBot : BOOLEAN, hasValidUrls : BOOLEAN,
   hasValidMentions : BOOLEAN]

YouTubeChecks ==
  [isDuplicate : BOOLEAN, isLanguageValid : BOOLEAN, isMinLength : BOOLEAN,
   isMaxLength : BOOLEAN, isBot : BOOLEAN, hasValidUrls : BOOLEAN,
   hasValidMentions : BOOLEAN, hasExcessiveEmojis : BOOLEAN,
   hasRepeatedText : BOOLEAN]

Penalty(failed, w) == IF failed THEN w ELSE 0

\* calculateQualityScore without its Math.max(0, score)
TwitterCalculateQualityScoreNoFloor(c) ==
  FullScore
  - Penalty(c.isDuplicate, 50)
  - Penalty(~c.isLanguageValid, 40)
  - Penalty(~c.isMinLength, 20)
  - Penalty(~c.isMaxLength, 10)
  - Penalty(c.isBot, 60)
  - Penalty(~c.hasValidUrls, 10)
  - Penalty(~c.hasValidMentions, 10)

\* DQMService.calculateQualityScore
TwitterCalculateQualityScore(c) ==
  Max0(FullScore
       - Penalty(c.isDuplicate, 50)
       - Penalty(~c.isLanguageValid, 40)
       - Penalty(~c.isMinLength, 20)
       - Penalty(~c.isMaxLength, 10)
       - Penalty(c.isBot, 60)
       - Penalty(~c.hasValidUrls, 10)
       - Penalty(~c.hasValidMentions, 10))

\* YouTubeDQMService.calculateQualityScore
YouTubeCalculateQualityScore(c) ==
  Max0(FullScore
       - Penalty(c.isDuplicate, 50)
       - Penalty(~c.isLanguageValid, 40)
       - Penalty(~c.isMinLength, 20)
       - Penalty(~c.isMaxLength, 10)
       - Penalty(c.isBot, 60)
       - Penalty(~c.hasValidUrls, 10)
       - Penalty(~c.hasValidMentions, 10)
       - Penalty(~c.hasExcessiveEmojis, 15)
       - Penalty(~c.hasRepeatedText, 15))

CalculateQualityScore(p, c) ==
  IF p = "twitter" THEN TwitterCalculateQualityScore(c)
  ELSE YouTubeCalculateQualityScore(c)

QualityThreshold(p) ==
  IF p = "twitter" THEN TwitterQualityThreshold ELSE YouTubeQualityThreshold

\* the pass condition without its "&& checks.isLanguageValid"
GatePassedScoreOnly(p, c) ==
  CalculateQualityScore(p, c) >= QualityThreshold(p)

\* checkTweet / checkComment: passed = score >= threshold && isLanguageValid
GatePassed(p, c) ==
  CalculateQualityScore(p, c) >= QualityThreshold(p) /\ c.isLanguageValid

\* the placeholder created whatever the verdict
CreatesPlaceholderAlways(passed) == TRUE

\* checkTweet / checkComment: if (passed) { await createProcessedTweet(...) }
CreatesPlaceholder(passed) == passed

ChecksOf(p) == IF p = "twitter" THEN TwitterChecks ELSE YouTubeChecks

\* the reason strings, by the rule they name ("short" for 'Tweet too short'
\* and 'Comment too short', "score" for 'Quality score ... below threshold')
\* getFailureReason with the test of the length put first
GetFailureReasonLengthFirst(p, c) ==
  IF ~c.isMinLength THEN "short"
  ELSE IF c.isDuplicate THEN "duplicate"
  ELSE IF ~c.isLanguageValid THEN "language"
  ELSE IF c.isBot THEN "bot"
  ELSE IF p = "youtube" /\ ~c.hasExcessiveEmojis THEN "emoji"
  ELSE IF p = "youtube" /\ ~c.hasRepeatedText THEN "repeated"
  ELSE IF CalculateQualityScore(p, c) < QualityThreshold(p) THEN "score"
  ELSE "unknown"

\* DQMService.getFailureReason / YouTubeDQMService.getFailureReason
GetFailureReason(p, c) ==
  IF c.isDuplicate THEN "duplicate"
  ELSE IF ~c.isLanguageValid THEN "language"
  ELSE IF c.isBot THEN "bot"
  ELSE IF ~c.isMinLength THEN "short"
  ELSE IF p = "youtube" /\ ~c.hasExcessiveEmojis THEN "emoji"
  ELSE IF p = "youtube" /\ ~c.hasRepeatedText THEN "repeated"
  ELSE IF CalculateQualityScore(p, c) < QualityThreshold(p) THEN "score"
  ELSE "unknown"

\* reason: !passed ? this.getFailureReason(checks, score) : undefined
Reason(p, c) == IF GatePassed(p, c) THEN "none" ELSE GetFailureReason(p, c)


\* ------------------------------------------------------------- state
VARIABLES
  platform,       \* which orchestrator the runs of this behaviour belong to
  runNo,          \* runs started so far
  pc,             \* the await at which run() is suspended
  isShuttingDown, \* the orchestrator's cooperative shutdown flag
  nUnits,         \* keywords / videos of this run
  unitIdx,        \* units started so far in this run
  items,          \* ids of the current unit not yet handed to processTweet
  totalFound, totalScraped, totalPassed,   \* run()'s local counters
  pendingStatus,  \* status of the update call in flight
  run,            \* the ScraperRun / YouTubeCollectorRun record
  err,            \* what sent run() into its catch block
  rawItem,        \* rows of rawTweet / rawYouTubeComment per external id
  dqmCheck,       \* rows of rawDqmCheck / youTubeDqmCheck: their passed flags
  processed,      \* rows of processedTweet / processedYouTubeComment
  \* history variables
  gateCalls,      \* invocations of checkTweet / checkComment per id
  returnedOk,     \* ids for which processTweet returned without throwing
  skipped,        \* ids for which processTweet took the "already exists" path
  newThisRun,     \* raw rows created by this run
  itemErrors,     \* history: items of this run whose processTweet threw
  statusWrites,   \* committed updates of this run's status
  sigAtIssue,     \* the flag when the committed status update was issued
  sigInAcq,       \* the flag was set while the acquisition loop was running
  observed,       \* a poll of the flag in run() has read TRUE
  obs,            \* counters and unit index at that poll
  enrichRan, aggRan  \* this run executed processPending* / updateDailyAggregation

VARIABLES
  gatePc,         \* "idle", "saved" (raw row stored, gate not yet run), "checked"
  gateChecks,     \* the rule outcomes of the item at the gate
  gateResult      \* the DQMResult checkTweet / checkComment returned

VARIABLES
  sPc,            \* where searchTweets is suspended
  retries,        \* searchTweets: let retries
  lastError,      \* searchTweets: let lastError (its message)
  delays,         \* the backoff delays computed in this call, before jitter
  attempts,       \* invocations of searchTweetsInternal in this call
  tweets,         \* searchTweetsInternal: const tweets (their ids)
  scrollAttempts, \* searchTweetsInternal: let scrollAttempts
  noGrowth,       \* iterations in a row that ended with newHeight === previousHeight
  result,         \* what the call returned
  credentials,    \* TWITTER_USERNAME and TWITTER_PASSWORD are set
  scrolls,        \* history: turns of the scroll loop in this call
  sigAtScroll,    \* history: scrolls when SIGTERM / SIGINT came (-1: none)
  grown           \* history: turns of this call that found the height grown

VARIABLES
  ePc,            \* where processPendingTweets / processPendingComments is
  backlog,        \* enriched rows in placeholder state, counted by kind
  pendingTweets,  \* the rows findMany returned to this invocation, by kind
  rewritten       \* enrichment has written a row it had written before

VARIABLES
  sentPc,         \* "idle", "pending" (row stored by the gate), "analysed"
  cleanedText,    \* ProcessedTweet.cleanedText
  normalizedText, \* ProcessedTweet.normalizedText
  sentiment       \* the SentimentResult analyzeText returned

VARIABLES
  aggStore,         \* today's rows: enriched rows by label, verdicts, passed;
                    \* rows of today and of other days holding one keyword
  aggPc,            \* per caller: where updateDailyAggregation is suspended
  aggLocal,         \* per caller: the values it computed from its queries
  aggCalls,         \* per caller: invocations so far
  dailyAggregation, \* the DailyAggregation row of today
  aggUpserts        \* upserts committed

VARIABLES
  colPc,            \* where collectVideoComments is suspended
  maxComments,      \* its parameter: the video's cap
  allComments,      \* comments pushed to const allComments
  totalCollected,   \* let totalCollected
  pageToken,        \* let pageToken is defined
  colShuttingDown   \* the collector's isShuttingDown

VARIABLES
  rlPc,             \* "idle", "waiting" (in rateLimit's setTimeout), "searching"
  clock,            \* Date.now()
  lastRequestTime,  \* TwitterScraper.lastRequestTime
  wakeAt,           \* when the pending setTimeout of rateLimit is due
  searchStartedAt,  \* history: when the call in progress left rateLimit
  previousRequestTime, \* history: lastRequestTime as that call found it

  \* performLogin
  loginPc,          \* the button step or wait performLogin is at
  clickedBy,        \* per button step: the strategy that set its flag
  activated,        \* history: button steps whose control was activated
  loginError,       \* message of the error performLogin threw

  \* extractTweetsFromPage, the merge of searchTweetsInternal, processTweet
  lsPc,             \* where the search and the loop over its result are
  lsPage,           \* the article elements the listing shows
  lsTweets,         \* tweets of searchTweetsInternal, then the loop's rest
  lsPasses,         \* listing passes of this search
  lsStored,         \* rawTweet rows, as [id, text]
  lsGated,          \* history: items handed to checkTweet
  lsCounted,        \* history: items counted in totalScraped
  lsErrors,         \* history: items logged by "Error processing tweet"

  \* the list searchTweetsInternal builds and returns
  enPc,             \* where the call is
  maxTweets,        \* the call's argument
  enTweets,         \* const tweets: Tweet[]
  enPasses,         \* turns of the scroll loop so far
  enClock,          \* history: tweets the listing passes have yielded so far
  firstAt,          \* history: per id, enClock at its first tweet (0: none)
  enResult,         \* the list returned

  \* two runs inside processTweet / processComment at the same time
  racePc,           \* per run: the await its processTweet is at
  raceItem,         \* per run: the external id its loop is at
  raceRaw,          \* raw rows per external id
  raceChecks,       \* verdict rows per external id
  raceOutcome,      \* history: per run and id, how processTweet ended

  \* two invocations of processPendingTweets at the same time
  ceRows,           \* the processed rows: text, label, score, tokens
  cePc,             \* per invocation: the phase it is in
  ceSnap,           \* per invocation: the rows its findMany returned
  ceAt              \* per invocation: the row its loop is at

ctl == <<pc, unitIdx, pendingStatus, sigAtIssue, err, observed, obs>>
counters == <<totalFound, totalScraped, totalPassed>>
store == <<rawItem, dqmCheck, processed>>
storeHist == <<gateCalls, returnedOk, skipped, newThisRun, itemErrors>>
orchVars == <<platform, runNo, isShuttingDown, nUnits, items, run,
              statusWrites, sigInAcq, enrichRan, aggRan, ctl, counters,
              store, storeHist>>
gateVars == <<gatePc, gateChecks, gateResult>>
searchVars == <<sPc, retries, lastError, delays, attempts, tweets,
                scrollAttempts, noGrowth, result, credentials, scrolls,
                sigAtScroll, grown>>
enrichVars == <<ePc, backlog, pendingTweets, rewritten>>
sentVars == <<sentPc, cleanedText, normalizedText, sentiment>>
aggVars == <<aggStore, aggPc, aggLocal, aggCalls, dailyAggregation,
             aggUpserts>>
collectVars == <<colPc, maxComments, allComments, totalCollected, pageToken,
                 colShuttingDown>>
throttleVars == <<rlPc, clock, lastRequestTime, wakeAt, searchStartedAt,
                  previousRequestTime>>
loginVars == <<loginPc, clickedBy, activated, loginError>>
listVars == <<lsPc, lsPage, lsTweets, lsPasses, lsStored, lsGated, lsCounted,
              lsErrors>>
encVars == <<enPc, maxTweets, enTweets, enPasses, enClock, firstAt, enResult>>
raceVars == <<racePc, raceItem, raceRaw, raceChecks, raceOutcome>>
ceVars == <<ceRows, cePc, ceSnap, ceAt>>
auxVars == <<enrichVars, sentVars, aggVars,
            collectVars,
            throttleVars,
            loginVars,
            listVars,
            encVars,
            raceVars,
            ceVars>>

NoRun == [status |-> "none", found |-> 0, scraped |-> 0, passed |-> 0,
          errorMessage |-> FALSE]
NewRun == [status |-> "RUNNING", found |-> 0, scraped |-> 0, passed |-> 0,
           errorMessage |-> FALSE]
NoObs == [found |-> 0, scraped |-> 0, passed |-> 0, unit |-> 0]

Terminal == {"COMPLETED", "FAILED", "CANCELLED"}
AcqPcs == {"search", "process", "updateStats", "delay"}

\* the rows Enrichment selects: sentimentScore 0.0 and sentimentLabel NEUTRAL
Placeholder == "NEUTRAL_0"
SentimentResults == {"NEUTRAL_0", "SCORED"}

\* ------------------------------------------- control flow of run()
\* the status computed without looking at the flag
RunStatusIgnoresFlag(flag, scraped) ==
  IF scraped > 0 THEN "COMPLETED" ELSE "FAILED"

\* run(): const status = isShuttingDown ? CANCELLED : n > 0 ? COMPLETED : FAILED
RunStatus(flag, scraped) ==
  IF flag THEN "CANCELLED" ELSE IF scraped > 0 THEN "COMPLETED" ELSE "FAILED"

Observe ==
  /\ observed' = TRUE
  /\ obs' = IF observed THEN obs
            ELSE [found |-> totalFound', scraped |-> totalScraped',
                  passed |-> totalPassed', unit |-> unitIdx]

NoObserve == UNCHANGED <<observed, obs>>

\* the status is computed and prisma.*.update is called
IssueStatusUpdate ==
  /\ pc' = "writeStatus"
  /\ pendingStatus' = RunStatus(isShuttingDown, totalScraped')
  /\ sigAtIssue' = isShuttingDown
  /\ UNCHANGED <<unitIdx, err>>

\* after the unit loop: if (!isShuttingDown) { enrichment; aggregation }
AfterLoop ==
  IF isShuttingDown
  THEN IssueStatusUpdate /\ Observe
  ELSE /\ pc' = "enrich"
       /\ UNCHANGED <<unitIdx, pendingStatus, sigAtIssue, err>>
       /\ NoObserve

\* top of the unit loop: for (unit of units) { if (isShuttingDown) break; ...
LoopTop ==
  IF unitIdx < nUnits /\ ~isShuttingDown
  THEN /\ pc' = "search"
       /\ unitIdx' = unitIdx + 1
       /\ UNCHANGED <<pendingStatus, sigAtIssue, err>>
       /\ NoObserve
  ELSE AfterLoop

\* after the item loop of a unit
AfterItems ==
  IF platform = "twitter"
  THEN \* if (isShuttingDown) break; await randomDelay(10000, 15000)
       IF isShuttingDown THEN AfterLoop
       ELSE /\ pc' = "delay"
            /\ UNCHANGED <<unitIdx, pendingStatus, sigAtIssue, err>>
            /\ NoObserve
  ELSE \* await whitelistManager.updateCollectionStats(...)
       /\ pc' = "updateStats"
       /\ UNCHANGED <<unitIdx, pendingStatus, sigAtIssue, err>>
       /\ IF isShuttingDown /\ items' # <<>>
          THEN Observe ELSE NoObserve

\* top of the item loop: for (item of items) { if (isShuttingDown) break; ...
ItemTop ==
  IF items' # <<>> /\ ~isShuttingDown
  THEN /\ pc' = "process"
       /\ UNCHANGED <<unitIdx, pendingStatus, sigAtIssue, err>>
       /\ NoObserve
  ELSE AfterItems

\* catch (error) { await prisma.*.update({status: FAILED, errorMessage}) ...
EnterCatch(cause) ==
  /\ pc' = "catchWrite"
  /\ err' = cause
  /\ pendingStatus' = "FAILED"
  /\ sigAtIssue' = isShuttingDown
  /\ UNCHANGED unitIdx
  /\ NoObserve


\* ------------------------------------------------------ acquisition
RECURSIVE DedupById(_)
\* searchTweetsInternal: if (!tweets.find((t) => t.id === tweet.id)) push
DedupById(s) ==
  IF s = <<>> THEN <<>>
  ELSE LET front == DedupById(SubSeq(s, 1, Len(s) - 1))
           last == s[Len(s)]
       IN IF \E i \in 1..Len(front) : front[i] = last
          THEN front ELSE Append(front, last)

Feeds == UNION {[1..k -> Ids] : k \in 0..MaxBatch}

\* what one unit of work hands to run(): searchTweets deduplicates by id,
\* collectVideoComments concatenates the pages of the API as they come
UnitResult(p, feed) == IF p = "twitter" THEN DedupById(feed) ELSE feed

\* the existence test inverted: if (!existing) return {saved: false}
ExistingInverted(id) == rawItem[id] = 0

\* processTweet / processComment: findUnique({where: {tweetId}}) found a row
Existing(id) == rawItem[id] > 0

\* the store's unique index on the external id rejects a second row
UniqueViolation(id) == rawItem[id] > 0

Good7 ==
  [isDuplicate |-> FALSE, isLanguageValid |-> TRUE, isMinLength |-> TRUE,
   isMaxLength |-> TRUE, isBot |-> FALSE, hasValidUrls |-> TRUE,
   hasValidMentions |-> TRUE]
Good9 ==
  [isDuplicate |-> FALSE, isLanguageValid |-> TRUE, isMinLength |-> TRUE,
   isMaxLength |-> TRUE, isBot |-> FALSE, hasValidUrls |-> TRUE,
   hasValidMentions |-> TRUE, hasExcessiveEmojis |-> TRUE,
   hasRepeatedText |-> TRUE]

\* rule outcomes of the items the feeds of Spec carry: a clean item, one
\* failing only the language rule, one matching a bot pattern
SampleChecks(p) ==
  LET g == IF p = "twitter" THEN Good7 ELSE Good9
  IN {g, [g EXCEPT !.isLanguageValid = FALSE], [g EXCEPT !.isBot = TRUE]}

\* totalScraped++ placed where a thrown processTweet reaches it too
CountsScrapedAlways(threw) == TRUE
\* try { result = await processTweet(...); totalScraped++ } catch { log }
CountsScraped(threw) == ~threw

\* the await of processTweet at which the store call rejects
FailPoints == {"none", "find", "create", "gate", "placeholder"}

\* ----------------------------------------------------------- actions
OrchIdle ==
  /\ runNo = 0
  /\ pc = "idle"
  /\ isShuttingDown = FALSE
  /\ nUnits = 0
  /\ unitIdx = 0
  /\ items = <<>>
  /\ totalFound = 0 /\ totalScraped = 0 /\ totalPassed = 0
  /\ pendingStatus = "none"
  /\ run = NoRun
  /\ err = "none"
  /\ dqmCheck = [i \in Ids |-> <<>>]
  /\ processed = [i \in Ids |-> <<>>]
  /\ gateCalls = [i \in Ids |-> 0]
  /\ returnedOk = {}
  /\ skipped = {}
  /\ newThisRun = 0
  /\ itemErrors = 0
  /\ statusWrites = 0
  /\ sigAtIssue = FALSE
  /\ sigInAcq = FALSE
  /\ observed = FALSE
  /\ obs = NoObs
  /\ enrichRan = FALSE /\ aggRan = FALSE

\* run() up to its first await inside try: a new orchestrator (runScrapeTask,
\* main), setupShutdownHandlers, the run record created RUNNING.
\* YouTubeCollector.run returns before creating the record when the
\* whitelist has no video.
StartRun ==
  /\ pc = "idle"
  /\ UNCHANGED <<gateVars, searchVars, auxVars>>
  /\ runNo < MaxRuns
  /\ runNo' = runNo + 1
  /\ isShuttingDown' = FALSE
  /\ \E n \in 0..MaxUnits :
       /\ platform = "twitter" => n = MaxUnits
       /\ nUnits' = n
       /\ IF n = 0
          THEN pc' = "idle" /\ run' = NoRun
          ELSE pc' = "init" /\ run' = NewRun
  /\ unitIdx' = 0 /\ items' = <<>>
  /\ totalFound' = 0 /\ totalScraped' = 0 /\ totalPassed' = 0
  /\ pendingStatus' = "none" /\ err' = "none"
  /\ newThisRun' = 0 /\ statusWrites' = 0 /\ itemErrors' = 0
  /\ sigAtIssue' = FALSE /\ sigInAcq' = FALSE
  /\ observed' = FALSE /\ obs' = NoObs
  /\ enrichRan' = FALSE /\ aggRan' = FALSE
  /\ UNCHANGED <<platform, store, gateCalls, returnedOk, skipped>>

\* setupShutdownHandlers: SIGTERM / SIGINT set the flag of the running
\* orchestrator; it is never cleared
Shutdown ==
  /\ pc # "idle"
  /\ UNCHANGED <<gateVars, searchVars, auxVars>>
  /\ ~isShuttingDown
  /\ isShuttingDown' = TRUE
  /\ sigInAcq' = (pc \in AcqPcs)
  /\ UNCHANGED <<platform, runNo, nUnits, items, run, statusWrites,
                 enrichRan, aggRan, ctl, counters, store, storeHist>>

\* scraper.initialize() / fetchVideoMetadataBatch() settles
InitDone ==
  /\ pc = "init"
  /\ UNCHANGED <<gateVars, searchVars, auxVars>>
  /\ UNCHANGED <<platform, runNo, isShuttingDown, nUnits, items, run,
                 statusWrites, sigInAcq, enrichRan, aggRan, counters, store,
                 storeHist>>
  /\ \/ LoopTop
     \/ EnterCatch("init")

\* scraper.searchTweets() / collectVideoComments() settles
SearchDone ==
  /\ pc = "search"
  /\ UNCHANGED <<gateVars, searchVars, auxVars>>
  /\ UNCHANGED <<platform, runNo, isShuttingDown, nUnits, run, statusWrites,
                 sigInAcq, enrichRan, aggRan, store, storeHist>>
  /\ \/ \E feed \in Feeds :
          /\ items' = UnitResult(platform, feed)
          /\ totalFound' = totalFound + Len(items')
          /\ UNCHANGED <<totalScraped, totalPassed>>
          /\ ItemTop
     \/ /\ UNCHANGED <<items, counters>>
        /\ EnterCatch("unit")

\* processTweet() / processComment() settles, and the try/catch around it
ProcessDone ==
  /\ pc = "process"
  /\ UNCHANGED <<gateVars, searchVars, auxVars>>
  /\ UNCHANGED <<platform, runNo, isShuttingDown, nUnits, run,
                 statusWrites, sigInAcq, enrichRan, aggRan, totalFound>>
  /\ items' = Tail(items)
  /\ \E f \in FailPoints, c \in SampleChecks(platform) :
       LET id == Head(items)
           found == f # "find" /\ Existing(id)
           created == /\ f \notin {"find", "create"}
                      /\ ~Existing(id)
                      /\ ~UniqueViolation(id)
           verdict == created /\ f # "gate"
           passed == GatePassed(platform, c)
           placeholder == /\ verdict
                          /\ CreatesPlaceholder(passed)
                          /\ f # "placeholder"
           threw == /\ ~found
                    /\ ~(verdict /\ (CreatesPlaceholder(passed) => placeholder))
       IN /\ rawItem' = IF created THEN [rawItem EXCEPT ![id] = @ + 1]
                        ELSE rawItem
          /\ gateCalls' = IF created THEN [gateCalls EXCEPT ![id] = @ + 1]
                          ELSE gateCalls
          /\ newThisRun' = IF created THEN newThisRun + 1 ELSE newThisRun
          /\ dqmCheck' = IF verdict
                         THEN [dqmCheck EXCEPT ![id] = Append(@, passed)]
                         ELSE dqmCheck
          /\ processed' = IF placeholder
                          THEN [processed EXCEPT ![id] = Append(@, Placeholder)]
                          ELSE processed
          /\ skipped' = IF found THEN skipped \cup {id} ELSE skipped
          /\ returnedOk' = IF threw THEN returnedOk ELSE returnedOk \cup {id}
          /\ itemErrors' = IF threw THEN itemErrors + 1 ELSE itemErrors
          \* totalScraped++; if (result.passed) totalPassed++
          /\ totalScraped' = IF CountsScraped(threw) THEN totalScraped + 1
                             ELSE totalScraped
          /\ totalPassed' = IF ~threw /\ ~found /\ passed
                            THEN totalPassed + 1 ELSE totalPassed
  /\ ItemTop

\* whitelistManager.updateCollectionStats() settles (YouTubeCollector only)
UpdateStatsDone ==
  /\ pc = "updateStats"
  /\ UNCHANGED <<gateVars, searchVars, auxVars>>
  /\ UNCHANGED <<platform, runNo, isShuttingDown, nUnits, items, run,
                 statusWrites, sigInAcq, enrichRan, aggRan, counters, store,
                 storeHist>>
  /\ \/ /\ pc' = "delay"
        /\ UNCHANGED <<unitIdx, pendingStatus, sigAtIssue, err>>
        /\ NoObserve
     \/ EnterCatch("stats")

\* the delay between units ends; YouTubeCollector polls the flag after it
DelayDone ==
  /\ pc = "delay"
  /\ UNCHANGED <<gateVars, searchVars, auxVars>>
  /\ UNCHANGED <<platform, runNo, isShuttingDown, nUnits, items, run,
                 statusWrites, sigInAcq, enrichRan, aggRan, counters, store,
                 storeHist>>
  /\ LoopTop

\* nlpOrchestrator.processPendingTweets() / processPendingComments() settles
EnrichDone ==
  /\ pc = "enrich"
  /\ UNCHANGED <<gateVars, searchVars, auxVars>>
  /\ UNCHANGED <<platform, runNo, isShuttingDown, nUnits, items, run,
                 statusWrites, sigInAcq, aggRan, counters, rawItem, dqmCheck,
                 storeHist>>
  /\ enrichRan' = TRUE
  /\ \/ /\ \E r \in [Ids -> SentimentResults] :
             processed' =
               [i \in Ids |->
                 [k \in 1..Len(processed[i]) |->
                   IF processed[i][k] = Placeholder THEN r[i]
                   ELSE processed[i][k]]]
        /\ pc' = "aggregate"
        /\ UNCHANGED <<unitIdx, pendingStatus, sigAtIssue, err>>
        /\ NoObserve
     \/ /\ UNCHANGED processed
        /\ EnterCatch("nlp")

\* nlpOrchestrator.updateDailyAggregation() settles; the status is computed
AggregateDone ==
  /\ pc = "aggregate"
  /\ UNCHANGED <<gateVars, searchVars, auxVars>>
  /\ UNCHANGED <<platform, runNo, isShuttingDown, nUnits, items, run,
                 statusWrites, sigInAcq, enrichRan, counters, store, storeHist>>
  /\ aggRan' = TRUE
  /\ \/ IssueStatusUpdate /\ NoObserve
     \/ EnterCatch("nlp")

\* the update of the try block commits and a later statement of the try
\* block throws
WriteStatusThenThrows ==
  /\ pc = "writeStatus"
  /\ UNCHANGED <<gateVars, searchVars, auxVars>>
  /\ UNCHANGED <<platform, runNo, isShuttingDown, nUnits, items,
                 sigInAcq, enrichRan, aggRan, counters, store, storeHist>>
  /\ run' = [run EXCEPT !.status = pendingStatus,
                        !.found = totalFound,
                        !.scraped = totalScraped,
                        !.passed = totalPassed]
  /\ statusWrites' = statusWrites + 1
  /\ EnterCatch("write")

\* the update of the try block settles
WriteStatus ==
  /\ pc = "writeStatus"
  /\ UNCHANGED <<gateVars, searchVars, auxVars>>
  /\ UNCHANGED <<platform, runNo, isShuttingDown, nUnits, items,
                 sigInAcq, enrichRan, aggRan, counters, store, storeHist>>
  /\ \/ /\ run' = [run EXCEPT !.status = pendingStatus,
                              !.found = totalFound,
                              !.scraped = totalScraped,
                              !.passed = totalPassed]
        /\ statusWrites' = statusWrites + 1
        /\ pc' = "cleanup"
        /\ UNCHANGED <<unitIdx, pendingStatus, sigAtIssue, err>>
        /\ NoObserve
     \/ /\ UNCHANGED <<run, statusWrites>>
        /\ EnterCatch("write")

\* the update of the catch block settles; the error is rethrown
CatchWrite ==
  /\ pc = "catchWrite"
  /\ UNCHANGED <<gateVars, searchVars, auxVars>>
  /\ UNCHANGED <<platform, runNo, isShuttingDown, nUnits, items,
                 sigInAcq, enrichRan, aggRan, counters, store, storeHist>>
  /\ \/ /\ run' = [run EXCEPT !.status = "FAILED", !.errorMessage = TRUE]
        /\ statusWrites' = statusWrites + 1
     \/ UNCHANGED <<run, statusWrites>>
  /\ pc' = "cleanup"
  /\ UNCHANGED <<unitIdx, pendingStatus, sigAtIssue, err>>
  /\ NoObserve

\* finally { await this.cleanup() }
Cleanup ==
  /\ pc = "cleanup"
  /\ UNCHANGED <<gateVars, searchVars, auxVars>>
  /\ pc' = "idle"
  /\ UNCHANGED <<platform, runNo, isShuttingDown, nUnits, items, run,
                 statusWrites, sigInAcq, enrichRan, aggRan, unitIdx,
                 pendingStatus, sigAtIssue, err, observed, obs, counters,
                 store, storeHist>>

NoResult == [passed |-> FALSE, score |-> 0, reason |-> "none"]

GateIdle ==
  /\ gatePc = "idle"
  /\ gateChecks = Good7
  /\ gateResult = NoResult

SearchReady ==
  /\ sPc = "idle"
  /\ retries = 0
  /\ lastError = "none"
  /\ delays = <<>>
  /\ attempts = 0
  /\ tweets = <<>>
  /\ scrollAttempts = 0
  /\ noGrowth = 0
  /\ result = <<>>
  /\ scrolls = 0
  /\ sigAtScroll = -1
  /\ grown = 0

SearchIdle == credentials = FALSE /\ SearchReady

\* placeholder rows by kind: never written and analysing to NEUTRAL / 0,
\* written before with NEUTRAL / 0, never written and analysing otherwise
NoRows == [fresh0 |-> 0, written0 |-> 0, fresh1 |-> 0]

EnrichIdle ==
  /\ ePc = "idle"
  /\ backlog = NoRows
  /\ pendingTweets = NoRows
  /\ rewritten = FALSE

NoSentiment == [label |-> "NEUTRAL", score |-> 0, confidence |-> 0]

SentIdle ==
  /\ sentPc = "idle"
  /\ cleanedText = <<>>
  /\ normalizedText = <<>>
  /\ sentiment = NoSentiment

Callers == {1, 2}
NoStore == [POSITIVE |-> 0, NEGATIVE |-> 0, NEUTRAL |-> 0, MIXED |-> 0,
            scoreSum |-> 0, checks |-> 0, passed |-> 0, kwToday |-> 0,
            kwOther |-> 0]
NoLocal == [analyzed |-> 0]
NoAggregate == [exists |-> FALSE]

AggIdle ==
  /\ aggStore = NoStore
  /\ aggPc = [c \in Callers |-> "idle"]
  /\ aggLocal = [c \in Callers |-> NoLocal]
  /\ aggCalls = [c \in Callers |-> 0]
  /\ dailyAggregation = NoAggregate
  /\ aggUpserts = 0

CollectIdle ==
  /\ colPc = "idle"
  /\ maxComments = 0
  /\ allComments = 0
  /\ totalCollected = 0
  /\ pageToken = FALSE
  /\ colShuttingDown = FALSE

ThrottleIdle ==
  /\ rlPc = "idle"
  /\ clock = 0
  /\ lastRequestTime = 0
  /\ wakeAt = 0
  /\ searchStartedAt = 0
  /\ previousRequestTime = 0

ButtonSteps == {"next", "emailNext", "login"}

LoginIdle ==
  /\ loginPc = "idle"
  /\ clickedBy = [s \in ButtonSteps |-> "none"]
  /\ activated = {}
  /\ loginError = "none"

ListIdle ==
  /\ lsPc = "idle"
  /\ lsPage = <<>>
  /\ lsTweets = <<>>
  /\ lsPasses = 0
  /\ lsStored = {}
  /\ lsGated = {}
  /\ lsCounted = {}
  /\ lsErrors = {}

EncIdle ==
  /\ enPc = "idle"
  /\ maxTweets = 1
  /\ enTweets = <<>>
  /\ enPasses = 0
  /\ enClock = 0
  /\ firstAt = [i \in 0..MaxId |-> 0]
  /\ enResult = <<>>

Runs == {1, 2}
RaceIds == 1..MaxRaceItems

RaceIdle ==
  /\ racePc = [r \in Runs |-> "idle"]
  /\ raceItem = [r \in Runs |-> 1]
  /\ raceRaw = [i \in RaceIds |-> 0]
  /\ raceChecks = [i \in RaceIds |-> 0]
  /\ raceOutcome = [r \in Runs |-> [i \in RaceIds |-> "none"]]

RowIds == 1..MaxEnrichRows
\* keywords: null
NoTokens == <<<<"null">>>>

CeIdle ==
  /\ ceRows = [i \in RowIds |-> [text |-> <<>>, label |-> "NEUTRAL",
                                 score |-> 0, tokens |-> NoTokens]]
  /\ cePc = [c \in Callers |-> "idle"]
  /\ ceSnap = [c \in Callers |-> <<>>]
  /\ ceAt = [c \in Callers |-> 1]

AuxIdle == EnrichIdle /\ SentIdle /\ AggIdle /\ CollectIdle /\ ThrottleIdle /\ LoginIdle /\ ListIdle /\ EncIdle /\ RaceIdle /\ CeIdle

Init ==
  /\ platform \in Platforms
  /\ rawItem = [i \in Ids |-> 0]
  /\ OrchIdle
  /\ GateIdle
  /\ SearchIdle
  /\ AuxIdle

vars == <<orchVars, gateVars, searchVars, auxVars>>

Next ==
  \/ StartRun
  \/ Shutdown
  \/ InitDone
  \/ SearchDone
  \/ ProcessDone
  \/ UpdateStatsDone
  \/ DelayDone
  \/ EnrichDone
  \/ AggregateDone
  \/ WriteStatus
  \/ CatchWrite
  \/ Cleanup

Spec == Init /\ [][Next]_vars


\* ------------------------------------------------- the gate on its own
\* processTweet has stored the raw row of id 1; its rule outcomes are any
\* combination the rule checks can produce
GateInit ==
  /\ platform \in Platforms
  /\ rawItem = [i \in Ids |-> IF i = 1 THEN 1 ELSE 0]
  /\ OrchIdle
  /\ SearchIdle
  /\ AuxIdle
  /\ gatePc = "saved"
  /\ gateChecks \in ChecksOf(platform)
  /\ gateResult = NoResult

\* checkTweet / checkComment: score, verdict row, placeholder row on pass
CheckItem ==
  /\ gatePc = "saved"
  /\ LET score == CalculateQualityScore(platform, gateChecks)
         passed == GatePassed(platform, gateChecks)
     IN /\ gateResult' = [passed |-> passed, score |-> score,
                          reason |-> Reason(platform, gateChecks)]
        /\ dqmCheck' = [dqmCheck EXCEPT ![1] = Append(@, passed)]
        /\ processed' = IF CreatesPlaceholder(passed)
                        THEN [processed EXCEPT ![1] = Append(@, Placeholder)]
                        ELSE processed
        /\ gateCalls' = [gateCalls EXCEPT ![1] = @ + 1]
  /\ gatePc' = "checked"
  /\ UNCHANGED <<platform, runNo, isShuttingDown, nUnits, items, run,
                 statusWrites, sigInAcq, enrichRan, aggRan, ctl, counters,
                 rawItem, returnedOk, skipped, newThisRun, itemErrors,
                 gateChecks,
                 searchVars, auxVars>>

GateNext == CheckItem

SpecGate == GateInit /\ [][GateNext]_vars

\* ------------------------------------------ TwitterScraper.searchTweets
MAX_RETRIES == 3
RATE_LIMIT_DELAY == 120000
maxScrollAttempts == 2

RECURSIVE Pow2(_)
Pow2(n) == IF n = 0 THEN 1 ELSE 2 * Pow2(n - 1)

\* the delay without its exponential factor
BackoffDelayFlat(r) == RATE_LIMIT_DELAY

\* const delay = Math.pow(2, retries) * TwitterScraper.RATE_LIMIT_DELAY
BackoffDelay(r) == Pow2(r) * RATE_LIMIT_DELAY

\* the loop condition of searchTweets: while (retries < MAX_RETRIES)
MayAttempt(r) == r < MAX_RETRIES

\* messages of the errors a search attempt can end with: the ones thrown by
\* searchTweetsInternal and performLogin, and errors of the browser layer
PageRateLimit == "Rate limit detected"
ScrollRateLimit == "Rate limit detected during scrolling"
NavigationTimeout == "Navigation timeout of 30000 ms exceeded"
LoginRequired ==
  "Twitter login required but credentials not provided. Please set TWITTER_USERNAME and TWITTER_PASSWORD in .env file"
LoginFailed == "Login verification failed"
BrowserErrors ==
  {NavigationTimeout, "HTTP 429", "rate limit", "too many requests",
   "Please wait a few moments"}

\* String.prototype.includes
Includes(t, p) ==
  \E k \in 1..(Len(t) - Len(p) + 1) : SubSeq(t, k, k + Len(p) - 1) = p

\* error.message, letter by letter
MessageText(m) ==
    CASE m = "Rate limit detected" ->
      <<"R", "a", "t", "e", " ", "l", "i", "m", "i", "t", " ", "d", "e",
        "t", "e", "c", "t", "e", "d">>
      [] m = "Rate limit detected during scrolling" ->
      <<"R", "a", "t", "e", " ", "l", "i", "m", "i", "t", " ", "d", "e",
        "t", "e", "c", "t", "e", "d", " ", "d", "u", "r", "i", "n", "g",
        " ", "s", "c", "r", "o", "l", "l", "i", "n", "g">>
      [] m = "Navigation timeout of 30000 ms exceeded" ->
      <<"N", "a", "v", "i", "g", "a", "t", "i", "o", "n", " ", "t", "i",
        "m", "e", "o", "u", "t", " ", "o", "f", " ", "3", "0", "0", "0",
        "0", " ", "m", "s", " ", "e", "x", "c", "e", "e", "d", "e", "d">>
      [] m = "HTTP 429" ->
      <<"H", "T", "T", "P", " ", "4", "2", "9">>
      [] m = "rate limit" ->
      <<"r", "a", "t", "e", " ", "l", "i", "m", "i", "t">>
      [] m = "too many requests" ->
      <<"t", "o", "o", " ", "m", "a", "n", "y", " ", "r", "e", "q", "u",
        "e", "s", "t", "s">>
      [] m = "Please wait a few moments" ->
      <<"P", "l", "e", "a", "s", "e", " ", "w", "a", "i", "t", " ", "a",
        " ", "f", "e", "w", " ", "m", "o", "m", "e", "n", "t", "s">>
      [] m = "Twitter login required but credentials not provided. Please set TWITTER_USERNAME and TWITTER_PASSWORD in .env file" ->
      <<"T", "w", "i", "t", "t", "e", "r", " ", "l", "o", "g", "i", "n",
        " ", "r", "e", "q", "u", "i", "r", "e", "d", " ", "b", "u", "t",
        " ", "c", "r", "e", "d", "e", "n", "t", "i", "a", "l", "s", " ",
        "n", "o", "t", " ", "p", "r", "o", "v", "i", "d", "e", "d", ".",
        " ", "P", "l", "e", "a", "s", "e", " ", "s", "e", "t", " ", "T",
        "W", "I", "T", "T", "E", "R", "_", "U", "S", "E", "R", "N", "A",
        "M", "E", " ", "a", "n", "d", " ", "T", "W", "I", "T", "T", "E",
        "R", "_", "P", "A", "S", "S", "W", "O", "R", "D", " ", "i", "n",
        " ", ".", "e", "n", "v", " ", "f", "i", "l", "e">>
      [] m = "Login verification failed" ->
      <<"L", "o", "g", "i", "n", " ", "v", "e", "r", "i", "f", "i", "c",
        "a", "t", "i", "o", "n", " ", "f", "a", "i", "l", "e", "d">>
      [] OTHER -> <<>>

\* the markers isRateLimitError looks for
RateLimitMarkers ==
  {<<"r", "a", "t", "e", " ", "l", "i", "m", "i", "t">>,
   <<"t", "o", "o", " ", "m", "a", "n", "y", " ", "r", "e", "q", "u", "e",
     "s", "t", "s">>,
   <<"4", "2", "9">>,
   <<"P", "l", "e", "a", "s", "e", " ", "w", "a", "i", "t", " ", "a", " ",
     "f", "e", "w", " ", "m", "o", "m", "e", "n", "t", "s">>}

\* isRateLimitError: errorMessage.includes(...) of four case-sensitive markers
IsRateLimitError(m) ==
  \E marker \in RateLimitMarkers : Includes(MessageText(m), marker)

\* catch (error) of searchTweets
AttemptThrows(m) ==
  /\ lastError' = m
  /\ IF IsRateLimitError(m)
     THEN /\ retries' = retries + 1
          /\ delays' = Append(delays, BackoffDelay(retries + 1))
          /\ sPc' = "backoff"
     ELSE /\ sPc' = "failed"
          /\ UNCHANGED <<retries, delays>>

\* searchTweets is called: rateLimit(), retries = 0, first attempt starts
SearchCall ==
  /\ sPc = "idle"
  /\ sPc' = "navigate"
  /\ retries' = 0
  /\ lastError' = "none"
  /\ delays' = <<>>
  /\ attempts' = 1
  /\ tweets' = <<>>
  /\ scrollAttempts' = 0
  /\ noGrowth' = 0
  /\ result' = <<>>
  /\ scrolls' = 0
  /\ sigAtScroll' = -1
  /\ grown' = 0
  /\ UNCHANGED <<credentials, auxVars, orchVars, gateVars>>

\* searchTweetsInternal up to the scroll loop: goto, login redirect,
\* waitForSelector (none found: return []), isCurrentlyRateLimited
Navigate ==
  /\ sPc = "navigate"
  /\ UNCHANGED <<credentials, auxVars, orchVars, gateVars, attempts, tweets,
                 scrollAttempts, noGrowth, scrolls, sigAtScroll, grown>>
  /\ \/ \E m \in BrowserErrors \cup {PageRateLimit} :
          AttemptThrows(m) /\ UNCHANGED result
     \* redirected to the login page: without credentials the attempt
     \* throws, with them performLogin may throw
     \/ /\ AttemptThrows(IF credentials THEN LoginFailed ELSE LoginRequired)
        /\ UNCHANGED result
     \/ /\ sPc' = "returned"
        /\ result' = <<>>
        /\ UNCHANGED <<retries, lastError, delays>>
     \/ /\ sPc' = "scroll"
        /\ UNCHANGED <<retries, lastError, delays, result>>

Take(s, n) == IF Len(s) <= n THEN s ELSE SubSeq(s, 1, n)

\* the counter incremented whether or not the height changed
StallsNoReset(grew, n) == n + 1
\* the counter never incremented
StallsNever(grew, n) == 0
\* if (newHeight === previousHeight) scrollAttempts++ else scrollAttempts = 0
Stalls(grew, n) == IF grew THEN 0 ELSE n + 1

\* one iteration of the scroll loop, and the loop condition after it
Scroll ==
  /\ sPc = "scroll"
  /\ scrolls < MaxScrolls
  /\ scrolls' = scrolls + 1
  /\ UNCHANGED <<credentials, auxVars, orchVars, gateVars, attempts,
                 sigAtScroll>>
  /\ \E page \in Feeds, limited \in BOOLEAN, grew \in BOOLEAN :
       LET collected == DedupById(tweets \o page)
           stalls == Stalls(grew, scrollAttempts)
       IN /\ tweets' = collected
          /\ IF Len(collected) >= MaxBatch
             THEN /\ sPc' = "returned"
                  /\ result' = Take(collected, MaxBatch)
                  /\ UNCHANGED <<retries, lastError, delays, scrollAttempts,
                                 noGrowth, grown>>
             ELSE IF limited
             THEN /\ AttemptThrows(ScrollRateLimit)
                  /\ UNCHANGED <<scrollAttempts, noGrowth, result, grown>>
             ELSE /\ scrollAttempts' = stalls
                  /\ noGrowth' = IF grew THEN 0 ELSE noGrowth + 1
                  /\ grown' = IF grew THEN grown + 1 ELSE grown
                  /\ UNCHANGED <<retries, lastError, delays>>
                  /\ IF stalls < maxScrollAttempts
                     THEN sPc' = "scroll" /\ UNCHANGED result
                     ELSE sPc' = "returned" /\ result' = Take(collected, MaxBatch)

\* the backoff delay and the visit of the home page are over: continue
Backoff ==
  /\ sPc = "backoff"
  /\ UNCHANGED <<credentials, auxVars, orchVars, gateVars, retries, lastError,
                 delays, result, scrolls, sigAtScroll, grown>>
  /\ IF MayAttempt(retries)
     THEN /\ sPc' = "navigate"
          /\ attempts' = attempts + 1
          /\ tweets' = <<>>
          /\ scrollAttempts' = 0
          /\ noGrowth' = 0
     ELSE /\ sPc' = "failed"
          /\ UNCHANGED <<attempts, tweets, scrollAttempts, noGrowth>>

\* the caller has the result or the error; the scraper is ready for a call
SearchOver ==
  /\ sPc \in {"returned", "failed"}
  /\ sPc' = "idle"
  /\ UNCHANGED <<credentials, auxVars, orchVars, gateVars, retries, lastError,
                 delays, attempts,
                 tweets, scrollAttempts, noGrowth, result, scrolls,
                 sigAtScroll, grown>>

\* SIGTERM / SIGINT while the search runs: the handler sets the flag of the
\* orchestrator; TwitterScraper holds no reference to it and reads it nowhere
SearchShutdown ==
  /\ sPc \in {"navigate", "scroll", "backoff"}
  /\ sigAtScroll = -1
  /\ sigAtScroll' = scrolls
  /\ UNCHANGED <<credentials, auxVars, orchVars, gateVars, sPc, retries,
                 lastError, delays, attempts, tweets, scrollAttempts,
                 noGrowth, result, scrolls, grown>>

SearchInit ==
  /\ platform = "twitter"
  /\ rawItem = [i \in Ids |-> 0]
  /\ OrchIdle
  /\ GateIdle
  /\ credentials \in BOOLEAN
  /\ SearchReady
  /\ AuxIdle

SearchNext ==
  \/ SearchCall
  \/ Navigate
  \/ Scroll
  \/ Backoff
  \/ SearchOver
  \/ SearchShutdown

SpecSearch == SearchInit /\ [][SearchNext]_vars


\* ------------------------------------------- the enrichment backlog
\* processPendingTweets / processPendingComments invoked again and again on
\* a store that receives no new rows; every store call succeeds.
PendingBatchSize == 100

Pending(b) == b.fresh0 + b.written0 + b.fresh1

\* findMany({where: {sentimentScore: 0.0, sentimentLabel: 'NEUTRAL'},
\* take: 100}), no orderBy: any PendingBatchSize of the matching rows, or
\* all of them when there are fewer
Batches(b) ==
  LET left == Max0(Pending(b) - PendingBatchSize)
      Left == {x \in [fresh0 : 0..left, written0 : 0..left, fresh1 : 0..left] :
                 /\ Pending(x) = left
                 /\ x.fresh0 <= b.fresh0
                 /\ x.written0 <= b.written0
                 /\ x.fresh1 <= b.fresh1}
  IN {[fresh0 |-> b.fresh0 - x.fresh0,
       written0 |-> b.written0 - x.written0,
       fresh1 |-> b.fresh1 - x.fresh1] : x \in Left}

\* the query of processPendingTweets settles; if (length === 0) return
SelectPending ==
  /\ ePc = "idle"
  /\ pendingTweets' \in Batches(backlog)
  /\ ePc' = IF Pending(pendingTweets') = 0 THEN "returned" ELSE "analysing"
  /\ UNCHANGED <<backlog, rewritten, sentVars, aggVars, collectVars, throttleVars, loginVars, listVars, encVars, raceVars, ceVars, orchVars, gateVars,
                 searchVars>>

\* analyzeBatch and extractBatch settle: analyzeTweet has written label and
\* score of every selected row; a row whose text analyses to NEUTRAL / 0.0
\* still matches the query of the next invocation
AnalyzeBatch ==
  /\ ePc = "analysing"
  /\ backlog' = [fresh0 |-> backlog.fresh0 - pendingTweets.fresh0,
                 written0 |-> backlog.written0 + pendingTweets.fresh0,
                 fresh1 |-> backlog.fresh1 - pendingTweets.fresh1]
  /\ rewritten' = (rewritten \/ pendingTweets.written0 > 0)
  /\ ePc' = "returned"
  /\ UNCHANGED <<pendingTweets, sentVars, aggVars, collectVars, throttleVars, loginVars, listVars, encVars, raceVars, ceVars, orchVars, gateVars,
                 searchVars>>

\* processPendingTweets returns; the scheduler will call it again
EnrichReturn ==
  /\ ePc = "returned"
  /\ ePc' = "idle"
  /\ pendingTweets' = NoRows
  /\ UNCHANGED <<backlog, rewritten, sentVars, aggVars, collectVars, throttleVars, loginVars, listVars, encVars, raceVars, ceVars, orchVars, gateVars,
                 searchVars>>

EnrichInit ==
  /\ platform \in Platforms
  /\ rawItem = [i \in Ids |-> 0]
  /\ OrchIdle
  /\ GateIdle
  /\ SearchIdle
  /\ CeIdle
  /\ RaceIdle
  /\ EncIdle
  /\ ListIdle
  /\ LoginIdle
  /\ ThrottleIdle
  /\ CollectIdle
  /\ ePc = "idle"
  /\ backlog \in {b \in [fresh0 : 0..MaxBacklog, written0 : {0},
                         fresh1 : 0..MaxBacklog] : Pending(b) <= MaxBacklog}
  /\ pendingTweets = NoRows
  /\ rewritten = FALSE
  /\ SentIdle
  /\ AggIdle

EnrichNext ==
  \/ SelectPending
  \/ AnalyzeBatch
  \/ EnrichReturn

SpecEnrich == EnrichInit /\ [][EnrichNext]_vars

\* the scheduler keeps invoking enrichment
SpecEnrichFair == SpecEnrich /\ WF_vars(EnrichNext)


\* ------------------------------------------- SentimentAnalyzer.analyzeText
\* Texts are sequences of one-character strings.  Scores are kept exact:
\* the raw score in quarters (raw4), the nutrition weight in hundredths
\* (weight100), the weighted score in four-hundredths (weighted400), the
\* normalized score in twelve-hundredths and the confidence in twentieths.
UpperCase ==
  <<"A", "B", "C", "D", "E", "F", "G", "H", "I", "J", "K", "L", "M",
    "N", "O", "P", "Q", "R", "S", "T", "U", "V", "W", "X", "Y", "Z">>
LowerCase ==
  <<"a", "b", "c", "d", "e", "f", "g", "h", "i", "j", "k", "l", "m",
    "n", "o", "p", "q", "r", "s", "t", "u", "v", "w", "x", "y", "z">>
Digit == {"0", "1", "2", "3", "4", "5", "6", "7", "8", "9"}

InSeq(x, s) == \E k \in 1..Len(s) : s[k] = x

\* String.prototype.toLowerCase
LowerOf(ch) ==
  IF InSeq(ch, UpperCase)
    THEN LowerCase[CHOOSE k \in 1..26 : UpperCase[k] = ch]
    ELSE ch
toLowerCase(t) == [k \in 1..Len(t) |-> LowerOf(t[k])]

\* the classes \w and \s of the regular expressions
IsWordChar(ch) ==
  InSeq(ch, UpperCase) \/ InSeq(ch, LowerCase) \/ ch \in Digit \/ ch = "_"
IsSpace(ch) == ch = " "

\* .replace(/[^\w\s]/g, ' ')
ReplacePunctuation(t) ==
  [k \in 1..Len(t) |-> IF IsWordChar(t[k]) \/ IsSpace(t[k]) THEN t[k] ELSE " "]
\* .replace(/\d+/g, '')
IsNoDigit(ch) == ch \notin Digit
RemoveDigits(t) == SelectSeq(t, IsNoDigit)

\* .split(/\s+/): a leading or trailing run of whitespace yields an empty
\* first or last word
RECURSIVE SplitFrom(_, _)
SplitFrom(t, k) ==
  LET spaces == {j \in k..Len(t) : IsSpace(t[j])}
  IN IF spaces = {} THEN <<SubSeq(t, k, Len(t))>>
     ELSE LET s == CHOOSE j \in spaces : \A i \in spaces : j <= i
              rest == {j \in s..Len(t) : ~IsSpace(t[j])}
              next == IF rest = {} THEN Len(t) + 1
                      ELSE CHOOSE j \in rest : \A i \in rest : j <= i
          IN <<SubSeq(t, k, s - 1)>> \o SplitFrom(t, next)
Split(t) == SplitFrom(t, 1)

RECURSIVE JoinWords(_)
JoinWords(ws) ==
  IF ws = <<>> THEN <<>>
  ELSE IF Len(ws) = 1 THEN ws[1]
  ELSE ws[1] \o <<" ">> \o JoinWords(Tail(ws))

\* .replace(/\s+/g, ' ').trim()
IsNonEmpty(w) == w # <<>>
CollapseWhitespace(t) == JoinWords(SelectSeq(Split(t), IsNonEmpty))

\* String.prototype.trim
RECURSIVE TrimStart(_)
TrimStart(t) ==
  IF t # <<>> /\ IsSpace(Head(t)) THEN TrimStart(Tail(t)) ELSE t
RECURSIVE TrimEnd(_)
TrimEnd(t) ==
  IF t # <<>> /\ IsSpace(t[Len(t)]) THEN TrimEnd(SubSeq(t, 1, Len(t) - 1))
  ELSE t
Trim(t) == TrimEnd(TrimStart(t))

\* DQMService.normalizeText
normalizeText(t) ==
  CollapseWhitespace(RemoveDigits(ReplacePunctuation(toLowerCase(t))))

\* phrase.includes(' ')
IsPhrase(p) == InSeq(" ", p)

\* positiveSentimentWords, in insertion order, letter by letter
positiveSentimentWords ==
  <<<<"b", "a", "i", "k">>, <<"b", "a", "g", "u", "s">>,
   <<"s", "a", "n", "g", "a", "t", " ", "b", "a", "g", "u", "s">>,
   <<"c", "u", "k", "u", "p", " ", "b", "a", "i", "k">>,
   <<"m", "e", "m", "u", "a", "s", "k", "a", "n">>,
   <<"m", "a", "n", "t", "a", "p">>, <<"h", "e", "b", "a", "t">>,
   <<"o", "k", "e">>, <<"p", "u", "a", "s">>,
   <<"s", "e", "n", "a", "n", "g">>,
   <<"t", "e", "r", "b", "a", "n", "t", "u">>,
   <<"b", "e", "r", "m", "a", "n", "f", "a", "a", "t">>,
   <<"s", "e", "s", "u", "a", "i">>,
   <<"t", "e", "p", "a", "t", " ", "s", "a", "s", "a", "r", "a", "n">>,
   <<"m", "u", "d", "a", "h">>, <<"j", "e", "l", "a", "s">>,
   <<"l", "e", "n", "g", "k", "a", "p">>, <<"c", "e", "p", "a", "t">>,
   <<"t", "e", "r", "j", "a", "n", "g", "k", "a", "u">>,
   <<"m", "u", "r", "a", "h">>,
   <<"m", "a", "h", "a", "l", " ", "t", "a", "p", "i", " ", "s", "e", "p", "a", "d", "a", "n">>,
   <<"r", "a", "m", "a", "h">>,
   <<"r", "e", "s", "p", "o", "n", "s", "i", "f">>,
   <<"t", "e", "r", "s", "e", "d", "i", "a">>,
   <<"c", "u", "k", "u", "p", " ", "t", "e", "r", "s", "e", "d", "i", "a">>,
   <<"m", "e", "l", "i", "m", "p", "a", "h">>,
   <<"s", "t", "a", "b", "i", "l">>, <<"a", "m", "a", "n">>,
   <<"s", "e", "h", "a", "t">>, <<"b", "e", "r", "g", "i", "z", "i">>,
   <<"n", "u", "t", "r", "i", "t", "i", "f">>,
   <<"b", "e", "r", "k", "u", "a", "l", "i", "t", "a", "s">>,
   <<"s", "e", "g", "a", "r">>, <<"e", "n", "a", "k">>,
   <<"l", "a", "y", "a", "k">>, <<"m", "e", "m", "a", "d", "a", "i">>,
   <<"t", "e", "r", "p", "e", "n", "u", "h", "i">>,
   <<"t", "e", "r", "c", "u", "k", "u", "p", "i">>,
   <<"k", "e", "c", "u", "k", "u", "p", "a", "n", " ", "g", "i", "z", "i">>,
   <<"g", "i", "z", "i", " ", "t", "e", "r", "c", "u", "k", "u", "p", "i">>,
   <<"m", "a", "k", "a", "n", " ", "t", "e", "r", "a", "t", "u", "r">>,
   <<"p", "o", "r", "s", "i", " ", "c", "u", "k", "u", "p">>,
   <<"m", "e", "n", "u", " ", "b", "e", "r", "v", "a", "r", "i", "a", "s", "i">>,
   <<"p", "r", "o", "t", "e", "i", "n", " ", "c", "u", "k", "u", "p">>,
   <<"s", "a", "y", "u", "r", " ", "c", "u", "k", "u", "p">>,
   <<"b", "u", "a", "h", " ", "c", "u", "k", "u", "p">>,
   <<"a", "s", "i", " ", "l", "a", "n", "c", "a", "r">>,
   <<"m", "p", "a", "s", "i", " ", "b", "a", "i", "k">>,
   <<"p", "o", "s", "y", "a", "n", "d", "u", " ", "m", "e", "m", "b", "a", "n", "t", "u">>,
   <<"p", "e", "l", "a", "y", "a", "n", "a", "n", " ", "b", "a", "i", "k">>,
   <<"b", "a", "n", "t", "u", "a", "n", " ", "t", "e", "p", "a", "t", " ", "w", "a", "k", "t", "u">>,
   <<"b", "a", "n", "t", "u", "a", "n", " ", "b", "e", "r", "m", "a", "n", "f", "a", "a", "t">>,
   <<"b", "a", "n", "s", "o", "s", " ", "m", "e", "m", "b", "a", "n", "t", "u">>,
   <<"h", "a", "r", "g", "a", " ", "s", "t", "a", "b", "i", "l">>,
   <<"h", "a", "r", "g", "a", " ", "t", "e", "r", "j", "a", "n", "g", "k", "a", "u">>,
   <<"a", "k", "s", "e", "s", " ", "m", "u", "d", "a", "h">>,
   <<"p", "a", "s", "o", "k", "a", "n", " ", "l", "a", "n", "c", "a", "r">>,
   <<"s", "t", "o", "k", " ", "a", "d", "a">>,
   <<"t", "i", "d", "a", "k", " ", "k", "e", "l", "a", "p", "a", "r", "a", "n">>,
   <<"t", "i", "d", "a", "k", " ", "k", "e", "k", "u", "r", "a", "n", "g", "a", "n">>,
   <<"t", "i", "d", "a", "k", " ", "k", "h", "a", "w", "a", "t", "i", "r">>,
   <<"o", "p", "t", "i", "m", "i", "s">>,
   <<"t", "e", "r", "j", "a", "m", "i", "n">>, <<"c", "u", "k", "u", "p">>,
   <<"p", "a", "s">>, <<"l", "u", "m", "a", "y", "a", "n">>,
   <<"s", "u", "k", "s", "e", "s">>,
   <<"b", "e", "r", "h", "a", "s", "i", "l">>, <<"m", "a", "j", "u">>,
   <<"p", "o", "s", "i", "t", "i", "f">>,
   <<"m", "e", "m", "b", "a", "i", "k">>, <<"t", "u", "m", "b", "u", "h">>,
   <<"s", "e", "m", "b", "u", "h">>, <<"p", "u", "l", "i", "h">>,
   <<"o", "p", "t", "i", "m", "a", "l">>,
   <<"m", "e", "n", "i", "n", "g", "k", "a", "t">>,
   <<"b", "e", "r", "k", "e", "m", "b", "a", "n", "g">>,
   <<"n", "o", "r", "m", "a", "l">>, <<"i", "d", "e", "a", "l">>,
   <<"k", "u", "a", "t">>, <<"a", "k", "t", "i", "f">>,
   <<"b", "e", "r", "p", "r", "e", "s", "t", "a", "s", "i">>>>

\* negativeSentimentWords, in insertion order
negativeSentimentWords ==
  <<<<"b", "i", "a", "s", "a", " ", "s", "a", "j", "a">>,
   <<"s", "t", "a", "n", "d", "a", "r">>, <<"n", "e", "t", "r", "a", "l">>,
   <<"t", "i", "d", "a", "k", " ", "m", "a", "s", "a", "l", "a", "h">>,
   <<"t", "i", "d", "a", "k", " ", "t", "e", "r", "l", "a", "l", "u">>,
   <<"k", "u", "r", "a", "n", "g">>,
   <<"k", "u", "r", "a", "n", "g", " ", "b", "a", "i", "k">>,
   <<"t", "i", "d", "a", "k", " ", "b", "a", "i", "k">>,
   <<"b", "u", "r", "u", "k">>,
   <<"s", "a", "n", "g", "a", "t", " ", "b", "u", "r", "u", "k">>,
   <<"m", "e", "n", "g", "e", "c", "e", "w", "a", "k", "a", "n">>,
   <<"k", "e", "c", "e", "w", "a">>, <<"s", "e", "d", "i", "h">>,
   <<"k", "h", "a", "w", "a", "t", "i", "r">>, <<"c", "e", "m", "a", "s">>,
   <<"s", "t", "r", "e", "s", "s">>,
   <<"t", "e", "r", "t", "e", "k", "a", "n">>, <<"l", "e", "l", "a", "h">>,
   <<"l", "a", "p", "a", "r">>,
   <<"k", "e", "l", "a", "p", "a", "r", "a", "n">>,
   <<"k", "e", "k", "u", "r", "a", "n", "g", "a", "n">>,
   <<"k", "e", "k", "u", "r", "a", "n", "g", "a", "n", " ", "g", "i", "z", "i">>,
   <<"g", "i", "z", "i", " ", "k", "u", "r", "a", "n", "g">>,
   <<"g", "i", "z", "i", " ", "b", "u", "r", "u", "k">>,
   <<"s", "t", "u", "n", "t", "i", "n", "g">>, <<"k", "u", "r", "u", "s">>,
   <<"w", "a", "s", "t", "i", "n", "g">>, <<"a", "n", "e", "m", "i", "a">>,
   <<"k", "u", "r", "a", "n", "g", " ", "d", "a", "r", "a", "h">>,
   <<"b", "b", " ", "k", "u", "r", "a", "n", "g">>,
   <<"b", "e", "r", "a", "t", " ", "b", "a", "d", "a", "n", " ", "t", "u", "r", "u", "n">>,
   <<"n", "a", "f", "s", "u", " ", "m", "a", "k", "a", "n", " ", "t", "u", "r", "u", "n">>,
   <<"s", "a", "k", "i", "t", "-", "s", "a", "k", "i", "t", "a", "n">>,
   <<"m", "a", "k", "a", "n", "a", "n", " ", "t", "i", "d", "a", "k", " ", "s", "e", "h", "a", "t">>,
   <<"j", "u", "n", "k", " ", "f", "o", "o", "d">>,
   <<"m", "a", "k", "a", "n", "a", "n", " ", "i", "n", "s", "t", "a", "n">>,
   <<"t", "i", "d", "a", "k", " ", "s", "e", "g", "a", "r">>,
   <<"b", "a", "s", "i">>,
   <<"t", "i", "d", "a", "k", " ", "e", "n", "a", "k">>,
   <<"h", "a", "m", "b", "a", "r">>,
   <<"p", "o", "r", "s", "i", " ", "k", "u", "r", "a", "n", "g">>,
   <<"p", "o", "r", "s", "i", " ", "k", "e", "c", "i", "l">>,
   <<"m", "e", "n", "u", " ", "t", "i", "d", "a", "k", " ", "b", "e", "r", "v", "a", "r", "i", "a", "s", "i">>,
   <<"j", "a", "r", "a", "n", "g", " ", "m", "a", "k", "a", "n">>,
   <<"t", "i", "d", "a", "k", " ", "m", "a", "k", "a", "n">>,
   <<"t", "e", "r", "l", "a", "m", "b", "a", "t", " ", "m", "a", "k", "a", "n">>,
   <<"s", "u", "s", "a", "h", " ", "m", "a", "k", "a", "n">>,
   <<"s", "u", "l", "i", "t", " ", "m", "a", "k", "a", "n">>,
   <<"a", "n", "a", "k", " ", "s", "u", "s", "a", "h", " ", "m", "a", "k", "a", "n">>,
   <<"t", "i", "d", "a", "k", " ", "a", "d", "a", " ", "u", "a", "n", "g">>,
   <<"t", "i", "d", "a", "k", " ", "m", "a", "m", "p", "u">>,
   <<"p", "e", "n", "g", "h", "a", "s", "i", "l", "a", "n", " ", "t", "u", "r", "u", "n">>,
   <<"p", "e", "n", "g", "a", "n", "g", "g", "u", "r", "a", "n">>,
   <<"u", "t", "a", "n", "g">>, <<"m", "a", "h", "a", "l">>,
   <<"s", "a", "n", "g", "a", "t", " ", "m", "a", "h", "a", "l">>,
   <<"h", "a", "r", "g", "a", " ", "n", "a", "i", "k">>,
   <<"i", "n", "f", "l", "a", "s", "i">>,
   <<"b", "i", "a", "y", "a", " ", "t", "i", "n", "g", "g", "i">>,
   <<"a", "k", "s", "e", "s", " ", "s", "u", "l", "i", "t">>,
   <<"j", "a", "u", "h">>,
   <<"t", "r", "a", "n", "s", "p", "o", "r", "t", " ", "m", "a", "h", "a", "l">>,
   <<"p", "a", "s", "a", "r", " ", "j", "a", "u", "h">>,
   <<"t", "i", "d", "a", "k", " ", "t", "e", "r", "s", "e", "d", "i", "a">>,
   <<"s", "t", "o", "k", " ", "h", "a", "b", "i", "s">>,
   <<"k", "o", "s", "o", "n", "g">>, <<"l", "a", "n", "g", "k", "a">>,
   <<"p", "a", "s", "o", "k", "a", "n", " ", "t", "e", "r", "g", "a", "n", "g", "g", "u">>,
   <<"d", "i", "s", "t", "r", "i", "b", "u", "s", "i", " ", "l", "a", "m", "b", "a", "t">>,
   <<"a", "n", "t", "r", "i">>,
   <<"p", "e", "l", "a", "y", "a", "n", "a", "n", " ", "b", "u", "r", "u", "k">>,
   <<"t", "i", "d", "a", "k", " ", "r", "a", "m", "a", "h">>,
   <<"l", "a", "m", "b", "a", "t">>, <<"r", "u", "m", "i", "t">>,
   <<"b", "e", "r", "b", "e", "l", "i", "t">>,
   <<"t", "i", "d", "a", "k", " ", "j", "e", "l", "a", "s">>,
   <<"m", "e", "m", "b", "i", "n", "g", "u", "n", "g", "k", "a", "n">>,
   <<"d", "a", "t", "a", " ", "t", "i", "d", "a", "k", " ", "a", "k", "u", "r", "a", "t">>,
   <<"d", "a", "t", "a", " ", "s", "a", "l", "a", "h">>,
   <<"t", "i", "d", "a", "k", " ", "v", "a", "l", "i", "d">>,
   <<"b", "i", "a", "s">>,
   <<"t", "i", "d", "a", "k", " ", "k", "o", "n", "s", "i", "s", "t", "e", "n">>,
   <<"d", "u", "p", "l", "i", "k", "a", "t">>,
   <<"t", "i", "d", "a", "k", " ", "l", "e", "n", "g", "k", "a", "p">>,
   <<"t", "i", "d", "a", "k", " ", "s", "e", "s", "u", "a", "i">>,
   <<"t", "i", "d", "a", "k", " ", "t", "e", "p", "a", "t">>,
   <<"t", "i", "d", "a", "k", " ", "t", "e", "p", "a", "t", " ", "s", "a", "s", "a", "r", "a", "n">>,
   <<"b", "a", "n", "t", "u", "a", "n", " ", "t", "i", "d", "a", "k", " ", "t", "e", "p", "a", "t", " ", "s", "a", "s", "a", "r", "a", "n">>,
   <<"b", "a", "n", "t", "u", "a", "n", " ", "t", "e", "r", "l", "a", "m", "b", "a", "t">>,
   <<"b", "a", "n", "t", "u", "a", "n", " ", "k", "u", "r", "a", "n", "g">>,
   <<"b", "a", "n", "s", "o", "s", " ", "t", "i", "d", "a", "k", " ", "a", "d", "a">>,
   <<"k", "o", "r", "u", "p", "s", "i">>, <<"p", "u", "n", "g", "l", "i">>,
   <<"c", "u", "r", "a", "n", "g">>,
   <<"t", "i", "d", "a", "k", " ", "d", "i", "p", "e", "r", "c", "a", "y", "a">>,
   <<"h", "o", "a", "k", "s">>,
   <<"i", "n", "f", "o", "r", "m", "a", "s", "i", " ", "s", "a", "l", "a", "h">>,
   <<"m", "i", "n", "i", "m", " ", "i", "n", "f", "o", "r", "m", "a", "s", "i">>,
   <<"r", "e", "n", "t", "a", "n">>,
   <<"r", "a", "w", "a", "n", " ", "p", "a", "n", "g", "a", "n">>,
   <<"t", "i", "d", "a", "k", " ", "t", "a", "h", "a", "n", " ", "p", "a", "n", "g", "a", "n">>,
   <<"k", "r", "i", "s", "i", "s", " ", "p", "a", "n", "g", "a", "n">>,
   <<"d", "a", "r", "u", "r", "a", "t", " ", "p", "a", "n", "g", "a", "n">>,
   <<"b", "a", "n", "j", "i", "r">>,
   <<"k", "e", "k", "e", "r", "i", "n", "g", "a", "n">>,
   <<"g", "a", "g", "a", "l", " ", "p", "a", "n", "e", "n">>,
   <<"c", "u", "a", "c", "a", " ", "b", "u", "r", "u", "k">>,
   <<"p", "a", "n", "e", "n", " ", "b", "u", "r", "u", "k">>,
   <<"h", "a", "m", "a">>,
   <<"h", "a", "r", "g", "a", " ", "p", "u", "p", "u", "k", " ", "n", "a", "i", "k">>,
   <<"h", "a", "r", "g", "a", " ", "p", "a", "k", "a", "n", " ", "n", "a", "i", "k">>,
   <<"h", "a", "s", "i", "l", " ", "t", "u", "r", "u", "n">>,
   <<"p", "e", "n", "d", "a", "p", "a", "t", "a", "n", " ", "p", "e", "t", "a", "n", "i", " ", "t", "u", "r", "u", "n">>,
   <<"p", "a", "s", "a", "r", " ", "s", "e", "p", "i">>,
   <<"d", "a", "y", "a", " ", "b", "e", "l", "i", " ", "t", "u", "r", "u", "n">>,
   <<"g", "a", "g", "a", "l">>, <<"m", "e", "n", "u", "r", "u", "n">>,
   <<"t", "u", "r", "u", "n">>, <<"k", "r", "i", "s", "i", "s">>,
   <<"p", "a", "r", "a", "h">>, <<"d", "a", "r", "u", "r", "a", "t">>,
   <<"l", "e", "m", "a", "h">>, <<"s", "a", "k", "i", "t">>,
   <<"p", "e", "n", "y", "a", "k", "i", "t">>,
   <<"m", "a", "s", "a", "l", "a", "h">>,
   <<"k", "e", "n", "d", "a", "l", "a">>, <<"m", "i", "n", "i", "m">>,
   <<"r", "e", "n", "d", "a", "h">>>>

\* nutritionKeywords, in insertion order
nutritionKeywords ==
  <<<<"g", "i", "z", "i">>, <<"n", "u", "t", "r", "i", "s", "i">>,
   <<"m", "a", "k", "a", "n">>, <<"m", "a", "k", "a", "n", "a", "n">>,
   <<"m", "i", "n", "u", "m">>, <<"m", "i", "n", "u", "m", "a", "n">>,
   <<"d", "i", "e", "t">>, <<"p", "r", "o", "t", "e", "i", "n">>,
   <<"k", "a", "r", "b", "o", "h", "i", "d", "r", "a", "t">>,
   <<"l", "e", "m", "a", "k">>, <<"v", "i", "t", "a", "m", "i", "n">>,
   <<"m", "i", "n", "e", "r", "a", "l">>, <<"s", "e", "r", "a", "t">>,
   <<"s", "a", "y", "u", "r">>, <<"b", "u", "a", "h">>,
   <<"n", "a", "s", "i">>, <<"l", "a", "u", "k">>,
   <<"l", "a", "u", "k", " ", "p", "a", "u", "k">>,
   <<"s", "t", "u", "n", "t", "i", "n", "g">>,
   <<"m", "a", "l", "n", "u", "t", "r", "i", "s", "i">>,
   <<"b", "u", "r", "u", "k">>, <<"s", "e", "h", "a", "t">>,
   <<"s", "a", "k", "i", "t">>, <<"i", "m", "u", "n">>,
   <<"d", "a", "y", "a", " ", "t", "a", "h", "a", "n">>,
   <<"t", "u", "m", "b", "u", "h">>, <<"k", "e", "m", "b", "a", "n", "g">>,
   <<"a", "n", "a", "k">>, <<"b", "a", "l", "i", "t", "a">>,
   <<"i", "b", "u">>, <<"h", "a", "m", "i", "l">>,
   <<"m", "e", "n", "y", "u", "s", "u", "i">>, <<"a", "s", "i">>,
   <<"m", "p", "a", "s", "i">>, <<"m", "b", "g">>,
   <<"m", "a", "k", "a", "n", " ", "s", "i", "a", "n", "g", " ", "g", "r", "a", "t", "i", "s">>,
   <<"m", "a", "k", "a", "n", " ", "b", "e", "r", "g", "i", "z", "i", " ", "g", "r", "a", "t", "i", "s">>,
   <<"p", "r", "o", "g", "r", "a", "m">>,
   <<"k", "e", "b", "i", "j", "a", "k", "a", "n">>,
   <<"p", "e", "m", "e", "r", "i", "n", "t", "a", "h">>,
   <<"s", "u", "b", "s", "i", "d", "i">>,
   <<"b", "a", "n", "t", "u", "a", "n">>, <<"b", "a", "n", "s", "o", "s">>,
   <<"p", "a", "n", "g", "a", "n">>,
   <<"k", "e", "t", "a", "h", "a", "n", "a", "n", " ", "p", "a", "n", "g", "a", "n">>,
   <<"k", "e", "d", "a", "u", "l", "a", "t", "a", "n", " ", "p", "a", "n", "g", "a", "n">>,
   <<"s", "w", "a", "s", "e", "m", "b", "a", "d", "a">>,
   <<"l", "a", "p", "a", "r">>, <<"k", "e", "n", "y", "a", "n", "g">>,
   <<"s", "e", "k", "o", "l", "a", "h">>, <<"k", "a", "n", "t", "i", "n">>,
   <<"k", "a", "n", "t", "i", "n", " ", "s", "e", "h", "a", "t">>,
   <<"k", "u", "a", "l", "i", "t", "a", "s">>,
   <<"k", "u", "a", "n", "t", "i", "t", "a", "s">>,
   <<"c", "u", "k", "u", "p">>, <<"k", "u", "r", "a", "n", "g">>,
   <<"l", "e", "b", "i", "h">>, <<"i", "m", "b", "a", "n", "g">>,
   <<"p", "o", "s", "y", "a", "n", "d", "u">>, <<"k", "a", "d", "e", "r">>,
   <<"a", "n", "a", "k", " ", "u", "s", "i", "a", " ", "d", "i", "n", "i">>>>

\* SentimentAnalyzer.NEGATION_WORDS
NEGATION_WORDS ==
  <<<<"t", "i", "d", "a", "k">>, <<"b", "u", "k", "a", "n">>,
   <<"t", "a", "n", "p", "a">>, <<"b", "e", "l", "u", "m">>,
   <<"j", "a", "n", "g", "a", "n">>, <<"n", "g", "g", "a", "k">>,
   <<"e", "n", "g", "g", "a", "k">>, <<"t", "a", "k">>, <<"g", "a", "k">>,
   <<"t", "a", "k">>, <<"j", "g", "n">>, <<"g">>>>

\* SentimentAnalyzer.BOOSTER_WORDS
BOOSTER_WORDS ==
  <<<<"s", "a", "n", "g", "a", "t">>, <<"a", "m", "a", "t">>,
   <<"t", "e", "r", "l", "a", "l", "u">>,
   <<"b", "e", "n", "a", "r", "-", "b", "e", "n", "a", "r">>,
   <<"s", "u", "n", "g", "g", "u", "h">>, <<"s", "e", "k", "a", "l", "i">>,
   <<"b", "a", "n", "g", "e", "t">>, <<"b", "g", "t">>,
   <<"p", "a", "r", "a", "h">>, <<"s", "e", "k", "a", "l", "i">>>>

\* the stopword list is no part of the sources at hand: these are the words
\* its documentation names and the two more its worked example removes
indonesianStopwords ==
  <<<<"y", "a", "n", "g">>, <<"d", "a", "n">>, <<"d", "i">>, <<"k", "e">>,
   <<"d", "a", "r", "i">>, <<"u", "n", "t", "u", "k">>,
   <<"d", "e", "n", "g", "a", "n">>, <<"a", "d", "a", "l", "a", "h">>,
   <<"i", "n", "i">>, <<"i", "t", "u">>, <<"j", "u", "g", "a">>,
   <<"a", "t", "a", "u">>, <<"k", "a", "r", "e", "n", "a">>,
   <<"t", "a", "p", "i">>, <<"k", "a", "l", "a", "u">>,
   <<"s", "a", "y", "a">>, <<"a", "n", "a", "k">>>>
\* the text of the documented worked example
ReferenceText ==
  <<"M", "a", "k", "a", "n", "a", "n", " ", "s", "a", "n", "g", "a", "t",
    " ", "b", "a", "g", "u", "s", ",", " ", "a", "n", "a", "k", " ", "s",
    "a", "y", "a", " ", "s", "e", "h", "a", "t", " ", "d", "a", "n", " ",
    "t", "u", "m", "b", "u", "h", " ", "d", "e", "n", "g", "a", "n", " ",
    "b", "a", "i", "k", " ", "b", "e", "r", "k", "a", "t", " ", "p", "r",
    "o", "g", "r", "a", "m", " ", "M", "B", "G">>
\* a negated positive word, and the same text without the negation
MakananTidakSehat ==
  <<"m", "a", "k", "a", "n", "a", "n", " ", "t", "i", "d", "a", "k", " ",
    "s", "e", "h", "a", "t">>
MakananSehat ==
  <<"m", "a", "k", "a", "n", "a", "n", " ", "s", "e", "h", "a", "t">>
\* texts whose weighted score is exactly 0.8 and exactly -0.8
AtPositiveThreshold ==
  <<"t", "i", "d", "a", "k", " ", "b", "a", "i", "k", " ", "j", "u", "n",
    "k", " ", "f", "o", "o", "d", " ", "g", "i", "z", "i", " ", "n", "u",
    "t", "r", "i", "s", "i", " ", "v", "i", "t", "a", "m", "i", "n", " ",
    "m", "i", "n", "e", "r", "a", "l">>
AtNegativeThreshold ==
  <<"t", "i", "d", "a", "k", " ", "s", "e", "h", "a", "t", " ", "g", "i",
    "z", "i", " ", "n", "u", "t", "r", "i", "s", "i", " ", "v", "i", "t",
    "a", "m", "i", "n">>

\* lexicon.getSentimentScore
getSentimentScore(word) ==
  LET lowerWord == Trim(toLowerCase(word))
      PositivePhrase(p) == IsPhrase(p) /\ Includes(lowerWord, p)
      NegativePhrase(p) == IsPhrase(p) /\ Includes(lowerWord, p)
  IN IF InSeq(lowerWord, positiveSentimentWords) THEN 1
     ELSE IF InSeq(lowerWord, negativeSentimentWords) THEN -1
     ELSE IF SelectSeq(positiveSentimentWords, PositivePhrase) # <<>> THEN 1
     ELSE IF SelectSeq(negativeSentimentWords, NegativePhrase) # <<>> THEN -1
     ELSE 0

\* lexicon.extractNutritionKeywords
extractNutritionKeywords(t) ==
  LET lowerText == toLowerCase(t)
      Found(keyword) == Includes(lowerText, keyword)
  IN SelectSeq(nutritionKeywords, Found)

\* removeStopwords(tokens)
IsNoStopword(w) == ~InSeq(w, indonesianStopwords)
removeStopwords(tokens) == SelectSeq(tokens, IsNoStopword)

\* SentimentAnalyzer.tokenize
IsLongWord(w) == Len(w) > 2
tokenize(t) ==
  SelectSeq(Split(RemoveDigits(ReplacePunctuation(toLowerCase(t)))), IsLongWord)

\* SentimentAnalyzer.checkNegation
checkNegation(t) ==
  LET words == Split(toLowerCase(t))
  IN \E k \in 1..(Len(words) - 1) :
       /\ InSeq(words[k], NEGATION_WORDS)
       /\ getSentimentScore(words[k + 1]) # 0

\* if (hasNegation) rawScore = rawScore * -0.5
Negate(hasNegation, raw4) ==
  IF hasNegation THEN (0 - raw4) \div 2 ELSE raw4

\* if (hasBooster) rawScore = rawScore * 1.5
Boost(hasBooster, raw4) ==
  IF hasBooster THEN (raw4 * 3) \div 2 ELSE raw4

\* 0.8 and -0.8, in four-hundredths
PositiveThreshold == 320
NegativeThreshold == -320

\* the label with the thresholds themselves labelled POSITIVE / NEGATIVE
LabelOfInclusive(weighted400, nPositive, nNegative) ==
  IF weighted400 >= PositiveThreshold THEN "POSITIVE"
  ELSE IF weighted400 <= NegativeThreshold THEN "NEGATIVE"
  ELSE IF nPositive > 0 /\ nNegative > 0 THEN "MIXED"
  ELSE "NEUTRAL"
\* analyzeText: determine label
LabelOf(weighted400, nPositive, nNegative) ==
  IF weighted400 > PositiveThreshold THEN "POSITIVE"
  ELSE IF weighted400 < NegativeThreshold THEN "NEGATIVE"
  ELSE IF nPositive > 0 /\ nNegative > 0 THEN "MIXED"
  ELSE "NEUTRAL"

Min2(x, y) == IF x < y THEN x ELSE y
Max2(x, y) == IF x > y THEN x ELSE y

\* Math.min(1.0, totalMatches / 4 + 0.3), in twentieths
Confidence(totalMatches) == Min2(20, 5 * totalMatches + 6)

\* the weighted score divided by 3 and not clamped
FinalScoreUnclamped(weighted400) == weighted400
\* Math.max(-1, Math.min(1, weightedScore / 3)), in twelve-hundredths
FinalScore(weighted400) == Max2(-1200, Min2(1200, weighted400))

analyzeText(cleaned, normalized) ==
  LET tokensWithoutStopwords == removeStopwords(tokenize(normalized))
      textLower == toLowerCase(normalized)
      IsPositive(w) == getSentimentScore(w) > 0
      IsNegative(w) == getSentimentScore(w) < 0
      positiveTokens == SelectSeq(tokensWithoutStopwords, IsPositive)
      negativeTokens == SelectSeq(tokensWithoutStopwords, IsNegative)
      NewPositivePhrase(p) ==
        IsPhrase(p) /\ Includes(textLower, p) /\ ~InSeq(p, positiveTokens)
      NewNegativePhrase(p) ==
        IsPhrase(p) /\ Includes(textLower, p) /\ ~InSeq(p, negativeTokens)
      positiveMatches ==
        positiveTokens \o SelectSeq(positiveSentimentWords, NewPositivePhrase)
      negativeMatches ==
        negativeTokens \o SelectSeq(negativeSentimentWords, NewNegativePhrase)
      base4 == 4 * (Len(positiveMatches) - Len(negativeMatches))
      hasNegation == checkNegation(normalized)
      negated4 == Negate(hasNegation, base4)
      HasBooster(b) == Includes(textLower, b)
      hasBooster == SelectSeq(BOOSTER_WORDS, HasBooster) # <<>>
      raw4 == Boost(hasBooster, negated4)
      nutritionContext == extractNutritionKeywords(cleaned)
      weight100 == 100 + 15 * Len(nutritionContext)
      weighted400 == raw4 * weight100
  IN [label |-> LabelOf(weighted400, Len(positiveMatches),
                        Len(negativeMatches)),
      score |-> FinalScore(weighted400),
      confidence |->
        Confidence(Len(positiveMatches) + Len(negativeMatches)),
      positiveMatches |-> positiveMatches,
      negativeMatches |-> negativeMatches,
      hasNegation |-> hasNegation,
      hasBooster |-> hasBooster,
      base4 |-> base4,
      negated4 |-> negated4,
      raw4 |-> raw4,
      nutritionContext |-> nutritionContext,
      weight100 |-> weight100,
      weightedScore |-> weighted400]

\* the words the analysed texts are made of
Vocabulary ==
  {<<"m", "a", "k", "a", "n", "a", "n">>, <<"t", "i", "d", "a", "k">>,
   <<"s", "e", "h", "a", "t">>, <<"s", "a", "n", "g", "a", "t">>,
   <<"b", "a", "g", "u", "s">>, <<"d", "a", "n">>}

\* the cleaned texts of the rows analysed: every text of up to MaxWords words
\* of the vocabulary, and the texts above
Texts ==
  {JoinWords(ws) : ws \in UNION {[1..n -> Vocabulary] : n \in 0..MaxWords}}
    \cup {ReferenceText, MakananTidakSehat, MakananSehat,
          AtPositiveThreshold, AtNegativeThreshold}

\* a row as createProcessedTweet has stored it
SentInit ==
  /\ platform \in Platforms
  /\ rawItem = [i \in Ids |-> 0]
  /\ OrchIdle
  /\ GateIdle
  /\ SearchIdle
  /\ CeIdle
  /\ RaceIdle
  /\ EncIdle
  /\ ListIdle
  /\ LoginIdle
  /\ ThrottleIdle
  /\ CollectIdle
  /\ EnrichIdle
  /\ AggIdle
  /\ sentPc = "pending"
  /\ cleanedText \in Texts
  /\ normalizedText = normalizeText(cleanedText)
  /\ sentiment = NoSentiment

\* SentimentAnalyzer.analyzeTweet
AnalyzeTweet ==
  /\ sentPc = "pending"
  /\ sentiment' = analyzeText(cleanedText, normalizedText)
  /\ sentPc' = "analysed"
  /\ UNCHANGED <<cleanedText, normalizedText, enrichVars, aggVars, collectVars, throttleVars, loginVars, listVars, encVars, raceVars, ceVars, orchVars,
                 gateVars, searchVars>>

SentNext == AnalyzeTweet

SpecSentiment == SentInit /\ [][SentNext]_vars


\* ------------------------------------------------ updateDailyAggregation
\* Two callers recompute today's aggregate over a store nothing else
\* writes; every store call succeeds.
Labels == {"POSITIVE", "NEGATIVE", "NEUTRAL", "MIXED"}

\* comments.length
Analyzed(s) == s.POSITIVE + s.NEGATIVE + s.NEUTRAL + s.MIXED

\* the count topKeywords gives for a keyword. NLPOrchestrator asks
\* KeywordExtractor.getTopKeywords, which reads every processed tweet that
\* has keywords; YouTubeNLPOrchestrator counts over the comments of today
TopKeywordCount(s) ==
  IF platform = "twitter" THEN s.kwToday + s.kwOther ELSE s.kwToday

\* what one invocation derives from its queries: the label counts, the sum
\* and number of the scores (avgSentimentScore), the verdicts and the passed
\* verdicts of today, the keyword count
Derive(s) ==
  [analyzed |-> Analyzed(s),
   sentimentPositive |-> s.POSITIVE,
   sentimentNegative |-> s.NEGATIVE,
   sentimentNeutral |-> s.NEUTRAL,
   sentimentMixed |-> s.MIXED,
   avgSentimentScore |-> <<s.scoreSum, Analyzed(s)>>,
   collected |-> s.checks,
   passedDqm |-> s.passed,
   topKeywords |-> TopKeywordCount(s)]

\* an update that adds the counts to the stored ones
UpsertIncrement(row, d) ==
  IF row.exists
  THEN [row EXCEPT !.analyzed = @ + d.analyzed,
                   !.collected = @ + d.collected,
                   !.passedDqm = @ + d.passedDqm]
  ELSE d @@ [exists |-> TRUE]
\* prisma.dailyAggregation.upsert({where, create, update})
Upsert(row, d) ==
  IF row.exists
  THEN [row EXCEPT !.analyzed = d.analyzed,
                   !.sentimentPositive = d.sentimentPositive,
                   !.sentimentNegative = d.sentimentNegative,
                   !.sentimentNeutral = d.sentimentNeutral,
                   !.sentimentMixed = d.sentimentMixed,
                   !.avgSentimentScore = d.avgSentimentScore,
                   !.collected = d.collected,
                   !.passedDqm = d.passedDqm,
                   !.topKeywords = d.topKeywords]
  ELSE d @@ [exists |-> TRUE]

\* the queries of one invocation settle; if (comments.length === 0) return
AggRead(c) ==
  /\ aggPc[c] = "idle"
  /\ aggCalls[c] < MaxAggCalls
  /\ aggCalls' = [aggCalls EXCEPT ![c] = @ + 1]
  /\ IF Analyzed(aggStore) = 0
     THEN UNCHANGED <<aggPc, aggLocal>>
     ELSE /\ aggPc' = [aggPc EXCEPT ![c] = "upsert"]
          /\ aggLocal' = [aggLocal EXCEPT ![c] = Derive(aggStore)]
  /\ UNCHANGED <<aggStore, dailyAggregation, aggUpserts, enrichVars, sentVars,
                 collectVars, throttleVars, loginVars, listVars, encVars, raceVars, ceVars, orchVars, gateVars, searchVars>>

\* the upsert of one invocation commits
AggUpsert(c) ==
  /\ aggPc[c] = "upsert"
  /\ dailyAggregation' = Upsert(dailyAggregation, aggLocal[c])
  /\ aggUpserts' = aggUpserts + 1
  /\ aggPc' = [aggPc EXCEPT ![c] = "idle"]
  /\ aggLocal' = [aggLocal EXCEPT ![c] = NoLocal]
  /\ UNCHANGED <<aggStore, aggCalls, enrichVars, sentVars, collectVars, throttleVars, loginVars, listVars, encVars, raceVars, ceVars, orchVars, gateVars,
                 searchVars>>

AggInit ==
  /\ platform \in Platforms
  /\ rawItem = [i \in Ids |-> 0]
  /\ OrchIdle
  /\ GateIdle
  /\ SearchIdle
  /\ CeIdle
  /\ RaceIdle
  /\ EncIdle
  /\ ListIdle
  /\ LoginIdle
  /\ ThrottleIdle
  /\ CollectIdle
  /\ EnrichIdle
  /\ SentIdle
  /\ aggStore \in
       {s \in [POSITIVE : 0..MaxAggRows, NEGATIVE : 0..MaxAggRows,
               NEUTRAL : 0..MaxAggRows, MIXED : 0..MaxAggRows,
               scoreSum : 0..MaxAggRows, checks : 0..MaxAggRows,
               passed : 0..MaxAggRows, kwToday : 0..MaxAggRows,
               kwOther : 0..MaxAggRows] :
          \* an enriched row has a passed verdict; only rows labelled
          \* POSITIVE have a score above 0; kwToday of today's enriched
          \* rows and kwOther of the rows of other days hold the keyword
          /\ Analyzed(s) <= s.passed
          /\ s.passed <= s.checks
          /\ s.scoreSum <= s.POSITIVE
          /\ s.kwToday <= Analyzed(s)}
  /\ aggPc = [c \in Callers |-> "idle"]
  /\ aggLocal = [c \in Callers |-> NoLocal]
  /\ aggCalls = [c \in Callers |-> 0]
  /\ dailyAggregation = NoAggregate
  /\ aggUpserts = 0

AggNext ==
  \/ \E c \in Callers : AggRead(c)
  \/ \E c \in Callers : AggUpsert(c)

SpecAggregate == AggInit /\ [][AggNext]_vars


\* ------------------------------------ YouTubeCollector.collectVideoComments
\* maxResults of commentThreads.list: Math.min(remaining, 100)
ApiPageMax == 100

\* fetchVideoComments: at most maxResults threads, each pushed with the
\* replies the response embeds in it
PageSizes(remaining) ==
  {p \in [threads : 0..Min2(remaining, ApiPageMax), replies : 0..MaxReplies] :
     p.threads = 0 => p.replies = 0}

\* collectVideoComments is called for a video of the whitelist
CollectCall ==
  /\ colPc = "idle"
  /\ colPc' = "loop"
  /\ maxComments' \in 1..MaxCap
  /\ allComments' = 0
  /\ totalCollected' = 0
  /\ pageToken' = FALSE
  /\ UNCHANGED <<colShuttingDown, enrichVars, sentVars, aggVars,
                 throttleVars, loginVars, listVars, encVars, raceVars, ceVars, orchVars, gateVars, searchVars>>

\* one iteration of the loop: a page is fetched and pushed;
\* if (!result.nextPageToken) break
FetchPage ==
  /\ colPc = "loop"
  /\ totalCollected < maxComments /\ ~colShuttingDown
  /\ \E p \in PageSizes(maxComments - totalCollected), next \in BOOLEAN :
       /\ allComments' = allComments + p.threads + p.replies
       /\ totalCollected' = totalCollected + p.threads + p.replies
       /\ IF next
          THEN pageToken' = TRUE /\ colPc' = "loop"
          ELSE UNCHANGED pageToken /\ colPc' = "returned"
  /\ UNCHANGED <<maxComments, colShuttingDown, enrichVars, sentVars, aggVars,
                 throttleVars, loginVars, listVars, encVars, raceVars, ceVars, orchVars, gateVars, searchVars>>

\* the loop condition fails: return allComments
CollectReturn ==
  /\ colPc = "loop"
  /\ ~(totalCollected < maxComments /\ ~colShuttingDown)
  /\ colPc' = "returned"
  /\ UNCHANGED <<maxComments, allComments, totalCollected, pageToken,
                 colShuttingDown, enrichVars, sentVars, aggVars, throttleVars, loginVars, listVars, encVars, raceVars, ceVars, orchVars,
                 gateVars, searchVars>>

\* SIGTERM / SIGINT while the collector runs
CollectShutdown ==
  /\ colPc = "loop"
  /\ ~colShuttingDown
  /\ colShuttingDown' = TRUE
  /\ UNCHANGED <<colPc, maxComments, allComments, totalCollected, pageToken,
                 enrichVars, sentVars, aggVars, throttleVars, loginVars, listVars, encVars, raceVars, ceVars, orchVars, gateVars, searchVars>>

\* run() has the comments of the video and goes on to the next video
CollectOver ==
  /\ colPc = "returned"
  /\ colPc' = "idle"
  /\ UNCHANGED <<maxComments, allComments, totalCollected, pageToken,
                 colShuttingDown, enrichVars, sentVars, aggVars, throttleVars, loginVars, listVars, encVars, raceVars, ceVars, orchVars,
                 gateVars, searchVars>>

CollectInit ==
  /\ platform = "youtube"
  /\ rawItem = [i \in Ids |-> 0]
  /\ OrchIdle
  /\ GateIdle
  /\ SearchIdle
  /\ CeIdle
  /\ RaceIdle
  /\ EncIdle
  /\ ListIdle
  /\ LoginIdle
  /\ ThrottleIdle
  /\ EnrichIdle
  /\ SentIdle
  /\ AggIdle
  /\ CollectIdle

CollectNext ==
  \/ CollectCall
  \/ FetchPage
  \/ CollectReturn
  \/ CollectShutdown
  \/ CollectOver

SpecCollect == CollectInit /\ [][CollectNext]_vars


\* ------------------------------------------------ TwitterScraper.rateLimit
\* searchTweets called again and again on one scraper, each call after the
\* previous one has settled; time is counted in milliseconds.
REQUEST_DELAY_MS == 8000
\* the grain of the clock
ClockStep == 4000

\* no wait whatever the time since the last request
WaitTimeNone(timeSinceLastRequest) == 0
\* if (timeSinceLastRequest < REQUEST_DELAY_MS)
\*   waitTime = REQUEST_DELAY_MS - timeSinceLastRequest
WaitTime(timeSinceLastRequest) ==
  IF timeSinceLastRequest < REQUEST_DELAY_MS
  THEN REQUEST_DELAY_MS - timeSinceLastRequest
  ELSE 0

\* this.lastRequestTime = Date.now(); rateLimit returns and the search starts
Stamp ==
  /\ previousRequestTime' = lastRequestTime
  /\ lastRequestTime' = clock
  /\ searchStartedAt' = clock
  /\ rlPc' = "searching"

\* time passes
Tick ==
  /\ clock + ClockStep <= MaxClock
  /\ clock' = clock + ClockStep
  /\ UNCHANGED <<rlPc, lastRequestTime, wakeAt, searchStartedAt,
                 previousRequestTime, enrichVars, sentVars, aggVars,
                 collectVars, loginVars, listVars, encVars, raceVars, ceVars, orchVars, gateVars, searchVars>>

\* searchTweets is called: rateLimit() up to its await, or to its end when
\* there is nothing to wait for
RateLimitEnter ==
  /\ rlPc = "idle"
  /\ LET waitTime == WaitTime(clock - lastRequestTime)
     IN IF waitTime > 0
        THEN /\ rlPc' = "waiting"
             /\ wakeAt' = clock + waitTime
             /\ UNCHANGED <<lastRequestTime, searchStartedAt,
                            previousRequestTime>>
        ELSE Stamp /\ UNCHANGED wakeAt
  /\ UNCHANGED <<clock, enrichVars, sentVars, aggVars, collectVars, loginVars, listVars, encVars, raceVars, ceVars, orchVars,
                 gateVars, searchVars>>

\* the timer of rateLimit fires, not before it is due
RateLimitWake ==
  /\ rlPc = "waiting"
  /\ clock >= wakeAt
  /\ Stamp
  /\ UNCHANGED <<clock, wakeAt, enrichVars, sentVars, aggVars, collectVars,
                 loginVars, listVars, encVars, raceVars, ceVars, orchVars, gateVars, searchVars>>

\* the call returns or throws
SearchSettles ==
  /\ rlPc = "searching"
  /\ rlPc' = "idle"
  /\ UNCHANGED <<clock, lastRequestTime, wakeAt, searchStartedAt,
                 previousRequestTime, enrichVars, sentVars, aggVars,
                 collectVars, loginVars, listVars, encVars, raceVars, ceVars, orchVars, gateVars, searchVars>>

\* a new scraper (lastRequestTime = 0) at a time of day past REQUEST_DELAY_MS
ThrottleInit ==
  /\ platform = "twitter"
  /\ rawItem = [i \in Ids |-> 0]
  /\ OrchIdle
  /\ GateIdle
  /\ SearchIdle
  /\ CeIdle
  /\ RaceIdle
  /\ EncIdle
  /\ ListIdle
  /\ LoginIdle
  /\ EnrichIdle
  /\ SentIdle
  /\ AggIdle
  /\ CollectIdle
  /\ rlPc = "idle"
  /\ clock = REQUEST_DELAY_MS
  /\ lastRequestTime = 0
  /\ wakeAt = 0
  /\ searchStartedAt = 0
  /\ previousRequestTime = 0

ThrottleNext ==
  \/ Tick
  \/ RateLimitEnter
  \/ RateLimitWake
  \/ SearchSettles

SpecThrottle == ThrottleInit /\ [][ThrottleNext]_vars


\* ----------------------------------------------- TwitterScraper.performLogin
\* what a strategy meets: the control is found and clicked, the control is
\* not on the page, or the browser call rejects
StrategyOutcomes == {"clicked", "absent", "throws"}

\* strategy 1: page.$x(...); if (button.length > 0) { click(); flag = true },
\* all inside try/catch
XPathReports(outcome) == outcome = "clicked"
\* strategy 2: page.evaluate(() => { ...; if (btn) btn.click() });
\* flag = true, inside try/catch
EvaluateReports(outcome) == outcome # "throws"

StepError(s) ==
  CASE s = "next" ->
         "Could not find or click Next button after entering username"
    [] s = "emailNext" ->
         "Could not find or click Next button after entering email"
    [] s = "login" -> "Could not find or click Log in button"

\* what follows a button step whose flag is set
AfterStep(s) ==
  CASE s = "next" -> "transition"
    [] s = "emailNext" -> "password"
    [] s = "login" -> "navigation"

\* performLogin is called; the username is typed
LoginStart ==
  /\ loginPc = "idle"
  /\ loginPc' = "next"
  /\ clickedBy' = [s \in ButtonSteps |-> "none"]
  /\ activated' = {}
  /\ loginError' = "none"
  /\ UNCHANGED <<enrichVars, sentVars, aggVars, collectVars, throttleVars,
                 listVars, encVars, raceVars, ceVars, orchVars, gateVars, searchVars>>

\* a button step: the strategies in their order, then the test of the flag
ClickButton(s) ==
  /\ loginPc = s
  /\ \E xpath \in StrategyOutcomes, evaluate \in StrategyOutcomes :
       LET by == IF XPathReports(xpath) THEN "xpath"
                 ELSE IF EvaluateReports(evaluate) THEN "evaluate"
                 ELSE "none"
           acted == \/ xpath = "clicked"
                    \/ ~XPathReports(xpath) /\ evaluate = "clicked"
       IN /\ clickedBy' = [clickedBy EXCEPT ![s] = by]
          /\ activated' = IF acted THEN activated \cup {s} ELSE activated
          /\ IF by = "none"
             THEN loginPc' = "failed" /\ loginError' = StepError(s)
             ELSE loginPc' = AfterStep(s) /\ UNCHANGED loginError
  /\ UNCHANGED <<enrichVars, sentVars, aggVars, collectVars, throttleVars,
                 listVars, encVars, raceVars, ceVars, orchVars, gateVars, searchVars>>

\* after Next: the email input shows (and an email is configured) or the
\* password input does; neither shows when the form did not advance
Transition ==
  /\ loginPc = "transition"
  /\ IF "next" \in activated
     THEN loginPc' \in {"emailNext", "password"} /\ UNCHANGED loginError
     ELSE loginPc' = "password" /\ UNCHANGED loginError
  /\ UNCHANGED <<clickedBy, activated, enrichVars, sentVars, aggVars,
                 collectVars, throttleVars, listVars, encVars, raceVars, ceVars, orchVars, gateVars, searchVars>>

\* waitForSelector('input[name="password"]') and the typing of the password
Password ==
  /\ loginPc = "password"
  /\ IF "next" \in activated /\
        (clickedBy["emailNext"] # "none" => "emailNext" \in activated)
     THEN loginPc' \in {"login", "failed"}
     ELSE loginPc' = "failed"
  /\ loginError' = IF loginPc' = "failed"
                   THEN "Waiting for selector failed" ELSE loginError
  /\ UNCHANGED <<clickedBy, activated, enrichVars, sentVars, aggVars,
                 collectVars, throttleVars, listVars, encVars, raceVars, ceVars, orchVars, gateVars, searchVars>>

\* waitForNavigation and isLoggedIn
Navigation ==
  /\ loginPc = "navigation"
  /\ \/ loginPc' = "failed" /\ loginError' = NavigationTimeout
     \/ /\ "login" \in activated
        /\ \/ loginPc' = "loggedIn" /\ UNCHANGED loginError
           \/ loginPc' = "failed" /\ loginError' = LoginFailed
  /\ UNCHANGED <<clickedBy, activated, enrichVars, sentVars, aggVars,
                 collectVars, throttleVars, listVars, encVars, raceVars, ceVars, orchVars, gateVars, searchVars>>

\* the caller has the outcome; performLogin can be called again
LoginOver ==
  /\ loginPc \in {"loggedIn", "failed"}
  /\ loginPc' = "idle"
  /\ UNCHANGED <<clickedBy, activated, loginError, enrichVars, sentVars,
                 aggVars, collectVars, throttleVars, listVars, encVars, raceVars, ceVars, orchVars, gateVars,
                 searchVars>>

LoginInit ==
  /\ platform = "twitter"
  /\ rawItem = [i \in Ids |-> 0]
  /\ OrchIdle
  /\ GateIdle
  /\ SearchIdle
  /\ CeIdle
  /\ RaceIdle
  /\ EncIdle
  /\ ListIdle
  /\ EnrichIdle
  /\ SentIdle
  /\ AggIdle
  /\ CollectIdle
  /\ ThrottleIdle
  /\ LoginIdle

LoginNext ==
  \/ LoginStart
  \/ \E s \in ButtonSteps : ClickButton(s)
  \/ Transition
  \/ Password
  \/ Navigation
  \/ LoginOver

SpecLogin == LoginInit /\ [][LoginNext]_vars


\* ------------------------- TwitterScraper.extractTweetsFromPage and after
\* an article element: the id extractTweetIdFromElement finds in it (0 for
\* the empty string, when its five methods all fail) and whether
\* extractText finds text
Elements == [id : 0..MaxId, text : BOOLEAN]
Pages == UNION {[1..k -> Elements] : k \in 0..MaxElements}

\* elementIndex of a tweet that carries none
NoIndex == -1

\* the tweet one element yields; index counts from 0
\*   if (!tweetId) { tweets.push({id: "", text: "", ..., elementIndex}) }
ExtractTweet(el, index) ==
  IF el.id = 0
  THEN <<[id |-> 0, text |-> FALSE, elementIndex |-> index]>>
  ELSE IF ~el.text THEN <<>>
  ELSE <<[id |-> el.id, text |-> TRUE, elementIndex |-> NoIndex]>>

RECURSIVE extractTweetsFromPage(_)
extractTweetsFromPage(page) ==
  IF page = <<>> THEN <<>>
  ELSE extractTweetsFromPage(SubSeq(page, 1, Len(page) - 1))
         \o ExtractTweet(page[Len(page)], Len(page) - 1)

\* the merge without its test: every tweet of the pass is pushed
MergeAll(soFar, newTweets) == soFar \o newTweets

RECURSIVE MergeNew(_, _)
\* for (const tweet of newTweets)
\*   if (!tweets.find((t) => t.id === tweet.id)) tweets.push(tweet)
MergeNew(soFar, newTweets) ==
  IF newTweets = <<>> THEN soFar
  ELSE LET tweet == Head(newTweets)
           seen == \E i \in 1..Len(soFar) : soFar[i].id = tweet.id
       IN MergeNew(IF seen THEN soFar ELSE Append(soFar, tweet),
                   Tail(newTweets))

\* the row processTweet writes for a tweet
RowOf(tweet) == [id |-> tweet.id, text |-> tweet.text]

\* what prisma.rawTweet.create does with the row: createdAt is
\* new Date(tweet.createdAt), an Invalid Date for the createdAt "" of a
\* tweet without id, which the client may reject
CreateOutcomes(tweet) ==
  IF tweet.id = 0 THEN {"created", "rejected"} ELSE {"created"}

\* searchTweetsInternal starts on a loaded listing
ListStart ==
  /\ lsPc = "idle"
  /\ lsPc' = "listing"
  /\ lsPage' \in Pages
  /\ lsTweets' = <<>>
  /\ lsPasses' = 0
  /\ UNCHANGED <<lsStored, lsGated, lsCounted, lsErrors, enrichVars,
                 sentVars, aggVars, collectVars, throttleVars, loginVars,
                 encVars, raceVars, ceVars, orchVars, gateVars, searchVars>>

\* one turn of the scroll loop: the listing pass and the merge
ListingPass ==
  /\ lsPc = "listing"
  /\ lsTweets' = MergeNew(lsTweets, extractTweetsFromPage(lsPage))
  /\ lsPasses' = lsPasses + 1
  /\ lsPc' = "scroll"
  /\ UNCHANGED <<lsPage, lsStored, lsGated, lsCounted, lsErrors, enrichVars,
                 sentVars, aggVars, collectVars, throttleVars, loginVars,
                 encVars, raceVars, ceVars, orchVars, gateVars, searchVars>>

\* the scroll brings other articles and the loop turns again
ListScroll ==
  /\ lsPc = "scroll"
  /\ lsPasses < MaxPasses
  /\ lsPage' \in Pages
  /\ lsPc' = "listing"
  /\ UNCHANGED <<lsTweets, lsPasses, lsStored, lsGated, lsCounted, lsErrors,
                 enrichVars, sentVars, aggVars, collectVars, throttleVars,
                 loginVars, encVars, raceVars, ceVars, orchVars, gateVars, searchVars>>

\* return tweets.slice(0, maxTweets); run() starts its loop over them
ListReturn ==
  /\ lsPc = "scroll"
  /\ lsPc' = "process"
  /\ UNCHANGED <<lsPage, lsTweets, lsPasses, lsStored, lsGated, lsCounted,
                 lsErrors, enrichVars, sentVars, aggVars, collectVars,
                 throttleVars, loginVars, encVars, raceVars, ceVars, orchVars, gateVars, searchVars>>

\* run(): try { processTweet(tweet); totalScraped++ } catch { logger.error }
ProcessTweet ==
  /\ lsPc = "process"
  /\ lsTweets # <<>>
  /\ lsTweets' = Tail(lsTweets)
  /\ LET tweet == Head(lsTweets)
         row == RowOf(tweet)
         existing == \E r \in lsStored : r.id = tweet.id
     IN \E outcome \in CreateOutcomes(tweet) :
          LET created == ~existing /\ outcome = "created"
              threw == ~existing /\ outcome = "rejected"
          IN /\ lsStored' = IF created THEN lsStored \cup {row} ELSE lsStored
             /\ lsGated' = IF created THEN lsGated \cup {row} ELSE lsGated
             /\ lsCounted' = IF threw THEN lsCounted
                             ELSE lsCounted \cup {row}
             /\ lsErrors' = IF threw THEN lsErrors \cup {row} ELSE lsErrors
  /\ UNCHANGED <<lsPc, lsPage, lsPasses, enrichVars, sentVars, aggVars,
                 collectVars, throttleVars, loginVars, encVars, raceVars, ceVars, orchVars, gateVars,
                 searchVars>>

\* the loop over the tweets of the keyword is through
ListOver ==
  /\ lsPc = "process"
  /\ lsTweets = <<>>
  /\ lsPc' = "idle"
  /\ lsPage' = <<>>
  /\ lsPasses' = 0
  /\ UNCHANGED <<lsTweets, lsStored, lsGated, lsCounted, lsErrors,
                 enrichVars, sentVars, aggVars, collectVars, throttleVars,
                 loginVars, encVars, raceVars, ceVars, orchVars, gateVars, searchVars>>

ListInit ==
  /\ platform = "twitter"
  /\ rawItem = [i \in Ids |-> 0]
  /\ OrchIdle
  /\ GateIdle
  /\ SearchIdle
  /\ CeIdle
  /\ RaceIdle
  /\ EncIdle
  /\ EnrichIdle
  /\ SentIdle
  /\ AggIdle
  /\ CollectIdle
  /\ ThrottleIdle
  /\ LoginIdle
  /\ ListIdle

ListNext ==
  \/ ListStart
  \/ ListingPass
  \/ ListScroll
  \/ ListReturn
  \/ ProcessTweet
  \/ ListOver

SpecListing == ListInit /\ [][ListNext]_vars


\* ------------------------------ the list searchTweetsInternal returns
\* the position in the stream of yielded tweets at which each id shows first
FirstAtAfter(seen, yielded, newTweets) ==
  [i \in 0..MaxId |->
     IF seen[i] # 0 THEN seen[i]
     ELSE LET at == {k \in 1..Len(newTweets) : newTweets[k].id = i}
          IN IF at = {} THEN 0
             ELSE yielded + (CHOOSE k \in at : \A o \in at : k <= o)]

\* searchTweetsInternal(keyword, maxTweets) reaches its scroll loop
EncCall ==
  /\ enPc = "idle"
  /\ enPc' = "loop"
  /\ maxTweets' \in 1..MaxTweets
  /\ enTweets' = <<>>
  /\ enPasses' = 0
  /\ enClock' = 0
  /\ firstAt' = [i \in 0..MaxId |-> 0]
  /\ enResult' = <<>>
  /\ UNCHANGED <<enrichVars, sentVars, aggVars, collectVars, throttleVars,
                 loginVars, listVars, raceVars, ceVars, orchVars, gateVars, searchVars>>

\* one turn of while (tweets.length < maxTweets && ...): the listing pass,
\* the merge, if (tweets.length >= maxTweets) break, the scroll
EncPass ==
  /\ enPc = "loop"
  /\ Len(enTweets) < maxTweets
  /\ enPasses < MaxPasses
  /\ \E page \in Pages :
       LET newTweets == extractTweetsFromPage(page)
       IN /\ enTweets' = MergeNew(enTweets, newTweets)
          /\ enClock' = enClock + Len(newTweets)
          /\ firstAt' = FirstAtAfter(firstAt, enClock, newTweets)
  /\ enPasses' = enPasses + 1
  /\ UNCHANGED <<enPc, maxTweets, enResult, enrichVars, sentVars, aggVars,
                 collectVars, throttleVars, loginVars, listVars, raceVars, ceVars, orchVars,
                 gateVars, searchVars>>

\* the loop is left (enough tweets, or the scroll counter at its bound):
\* return tweets.slice(0, maxTweets)
EncReturn ==
  /\ enPc = "loop"
  /\ enPasses > 0
  /\ enPc' = "returned"
  /\ enResult' = Take(enTweets, maxTweets)
  /\ UNCHANGED <<maxTweets, enTweets, enPasses, enClock, firstAt, enrichVars,
                 sentVars, aggVars, collectVars, throttleVars, loginVars,
                 listVars, raceVars, ceVars, orchVars, gateVars, searchVars>>

\* the caller has the list
EncOver ==
  /\ enPc = "returned"
  /\ enPc' = "idle"
  /\ UNCHANGED <<maxTweets, enTweets, enPasses, enClock, firstAt, enResult,
                 enrichVars, sentVars, aggVars, collectVars, throttleVars,
                 loginVars, listVars, raceVars, ceVars, orchVars, gateVars, searchVars>>

EncInit ==
  /\ platform = "twitter"
  /\ rawItem = [i \in Ids |-> 0]
  /\ OrchIdle
  /\ GateIdle
  /\ SearchIdle
  /\ CeIdle
  /\ RaceIdle
  /\ EnrichIdle
  /\ SentIdle
  /\ AggIdle
  /\ CollectIdle
  /\ ThrottleIdle
  /\ LoginIdle
  /\ ListIdle
  /\ EncIdle

EncNext ==
  \/ EncCall
  \/ EncPass
  \/ EncReturn
  \/ EncOver

SpecEncounter == EncInit /\ [][EncNext]_vars


\* ------------------------- processTweet / processComment in two runs at once
\* Both runs meet the ids 1..MaxRaceItems in this order; every await of
\* processTweet is a point at which the other run may take its steps. The
\* external id is the unique key findUnique reads by, so the store rejects a
\* second row with the same id.

\* the loop of run() reaches its next item and calls processTweet
RaceStart(r) ==
  /\ racePc[r] = "idle"
  /\ raceItem[r] \in RaceIds
  /\ racePc' = [racePc EXCEPT ![r] = "find"]
  /\ UNCHANGED <<raceItem, raceRaw, raceChecks, raceOutcome, enrichVars,
                 sentVars, aggVars, collectVars, throttleVars, loginVars,
                 listVars, encVars, ceVars, orchVars, gateVars, searchVars>>

\* findUnique settles: if (existing) return {passed: false, saved: false}
RaceFind(r) ==
  /\ racePc[r] = "find"
  /\ LET id == raceItem[r]
     IN IF raceRaw[id] > 0
        THEN /\ raceOutcome' = [raceOutcome EXCEPT ![r][id] = "skipped"]
             /\ racePc' = [racePc EXCEPT ![r] = "idle"]
             /\ raceItem' = [raceItem EXCEPT ![r] = id + 1]
        ELSE /\ racePc' = [racePc EXCEPT ![r] = "create"]
             /\ UNCHANGED <<raceItem, raceOutcome>>
  /\ UNCHANGED <<raceRaw, raceChecks, enrichVars, sentVars, aggVars,
                 collectVars, throttleVars, loginVars, listVars, encVars,
                 ceVars, orchVars, gateVars, searchVars>>

\* create settles: the row is stored, or the unique key rejects it and the
\* rejection leaves processTweet for the catch of run(): logger.error(...)
RaceCreate(r) ==
  /\ racePc[r] = "create"
  /\ LET id == raceItem[r]
     IN IF raceRaw[id] > 0
        THEN /\ raceOutcome' = [raceOutcome EXCEPT ![r][id] = "error"]
             /\ racePc' = [racePc EXCEPT ![r] = "idle"]
             /\ raceItem' = [raceItem EXCEPT ![r] = id + 1]
             /\ UNCHANGED raceRaw
        ELSE /\ raceRaw' = [raceRaw EXCEPT ![id] = @ + 1]
             /\ racePc' = [racePc EXCEPT ![r] = "gate"]
             /\ UNCHANGED <<raceItem, raceOutcome>>
  /\ UNCHANGED <<raceChecks, enrichVars, sentVars, aggVars, collectVars,
                 throttleVars, loginVars, listVars, encVars, ceVars, orchVars,
                 gateVars, searchVars>>

\* checkTweet / checkComment settles: the verdict row is written
RaceGate(r) ==
  /\ racePc[r] = "gate"
  /\ LET id == raceItem[r]
     IN /\ raceChecks' = [raceChecks EXCEPT ![id] = @ + 1]
        /\ raceOutcome' = [raceOutcome EXCEPT ![r][id] = "saved"]
        /\ raceItem' = [raceItem EXCEPT ![r] = id + 1]
  /\ racePc' = [racePc EXCEPT ![r] = "idle"]
  /\ UNCHANGED <<raceRaw, enrichVars, sentVars, aggVars, collectVars,
                 throttleVars, loginVars, listVars, encVars, ceVars, orchVars,
                 gateVars, searchVars>>

RaceInit ==
  /\ platform \in Platforms
  /\ rawItem = [i \in Ids |-> 0]
  /\ OrchIdle
  /\ GateIdle
  /\ SearchIdle
  /\ AuxIdle

RaceNext ==
  \E r \in Runs :
    \/ RaceStart(r)
    \/ RaceFind(r)
    \/ RaceCreate(r)
    \/ RaceGate(r)

SpecRace == RaceInit /\ [][RaceNext]_vars


\* ------------------------------ processPendingTweets in two invocations
\* The scheduler's enrichment after a scrape and its hourly enrichment run
\* at the same time over the same placeholder rows; every store call
\* succeeds. cleanedText and normalizedText of a row are the same text here.
RowTexts ==
  {ReferenceText, MakananTidakSehat, <<"m", "a", "k", "a", "n", "a", "n">>}

\* extractKeywords: the tokens it writes (keywords and stemmedText are the
\* stems of these tokens, counted and joined)
IsKeywordLength(w) == Len(w) > 3
KeywordTokens(t) ==
  removeStopwords(
    SelectSeq(Split(ReplacePunctuation(toLowerCase(t))), IsKeywordLength))

\* the rows findMany returns, with the values they hold at that moment:
\* where: {sentimentScore: 0.0, sentimentLabel: 'NEUTRAL'}
RECURSIVE PendingFrom(_, _)
PendingFrom(rows, i) ==
  IF i > MaxEnrichRows THEN <<>>
  ELSE (IF rows[i].score = 0 /\ rows[i].label = "NEUTRAL"
        THEN <<[id |-> i, row |-> rows[i]]>> ELSE <<>>)
       \o PendingFrom(rows, i + 1)

\* an update that writes back the whole row as findMany returned it
KeywordUpdateWholeRow(row, snap) ==
  [snap EXCEPT !.tokens = KeywordTokens(snap.text)]
\* extractKeywords: update({where: {id}, data: {keywords, stemmedText, tokens}})
KeywordUpdate(row, snap) ==
  [row EXCEPT !.tokens = KeywordTokens(snap.text)]

\* analyzeTweet: update({where: {id}, data: {sentimentLabel, sentimentScore, ...}})
SentimentUpdate(row, snap) ==
  LET analysed == analyzeText(snap.text, snap.text)
  IN [row EXCEPT !.label = analysed.label, !.score = analysed.score]

\* findMany settles; if (pendingTweets.length === 0) return
CeSelect(c) ==
  /\ cePc[c] = "idle"
  /\ ceSnap' = [ceSnap EXCEPT ![c] = PendingFrom(ceRows, 1)]
  /\ cePc' = [cePc EXCEPT ![c] =
                IF ceSnap'[c] = <<>> THEN "done" ELSE "analysing"]
  /\ ceAt' = [ceAt EXCEPT ![c] = 1]
  /\ UNCHANGED <<ceRows, enrichVars, sentVars, aggVars, collectVars,
                 throttleVars, loginVars, listVars, encVars, raceVars,
                 orchVars, gateVars, searchVars>>

\* analyzeBatch: analyzeTweet of the next row settles
CeAnalyze(c) ==
  /\ cePc[c] = "analysing"
  /\ LET s == ceSnap[c][ceAt[c]]
     IN ceRows' = [ceRows EXCEPT ![s.id] = SentimentUpdate(@, s.row)]
  /\ IF ceAt[c] < Len(ceSnap[c])
     THEN ceAt' = [ceAt EXCEPT ![c] = @ + 1] /\ UNCHANGED cePc
     ELSE /\ ceAt' = [ceAt EXCEPT ![c] = 1]
          /\ cePc' = [cePc EXCEPT ![c] = "extracting"]
  /\ UNCHANGED <<ceSnap, enrichVars, sentVars, aggVars, collectVars,
                 throttleVars, loginVars, listVars, encVars, raceVars,
                 orchVars, gateVars, searchVars>>

\* extractBatch: extractKeywords of the next row settles
CeExtract(c) ==
  /\ cePc[c] = "extracting"
  /\ LET s == ceSnap[c][ceAt[c]]
     IN ceRows' = [ceRows EXCEPT ![s.id] = KeywordUpdate(@, s.row)]
  /\ IF ceAt[c] < Len(ceSnap[c])
     THEN ceAt' = [ceAt EXCEPT ![c] = @ + 1] /\ UNCHANGED cePc
     ELSE /\ ceAt' = [ceAt EXCEPT ![c] = 1]
          /\ cePc' = [cePc EXCEPT ![c] = "done"]
  /\ UNCHANGED <<ceSnap, enrichVars, sentVars, aggVars, collectVars,
                 throttleVars, loginVars, listVars, encVars, raceVars,
                 orchVars, gateVars, searchVars>>

CeInit ==
  /\ platform = "twitter"
  /\ rawItem = [i \in Ids |-> 0]
  /\ OrchIdle
  /\ GateIdle
  /\ SearchIdle
  /\ EnrichIdle
  /\ SentIdle
  /\ AggIdle
  /\ CollectIdle
  /\ ThrottleIdle
  /\ LoginIdle
  /\ ListIdle
  /\ EncIdle
  /\ RaceIdle
  /\ ceRows \in [RowIds -> [text : RowTexts, label : {"NEUTRAL"},
                            score : {0}, tokens : {NoTokens}]]
  /\ cePc = [c \in Callers |-> "idle"]
  /\ ceSnap = [c \in Callers |-> <<>>]
  /\ ceAt = [c \in Callers |-> 1]

CeNext ==
  \E c \in Callers :
    \/ CeSelect(c)
    \/ CeAnalyze(c)
    \/ CeExtract(c)

SpecEnrichRace == CeInit /\ [][CeNext]_vars


\* ============================================================== claims

\* C1: however often an external id is met, within a run or across runs,
\* the store holds at most one raw row, one verdict and one enriched row
\* for it, the gate ran for it at most once, and an id whose processing
\* returned normally has exactly one raw row.
C1_IdempotentDedup ==
  \A i \in Ids :
    /\ rawItem[i] <= 1
    /\ Len(dqmCheck[i]) <= 1
    /\ Len(processed[i]) <= 1
    /\ gateCalls[i] <= 1
    /\ (i \in returnedOk => rawItem[i] = 1)

\* an id met again after it was stored, verdict and gate call still single
C1_Witness ==
  \E i \in skipped :
    rawItem[i] = 1 /\ Len(dqmCheck[i]) = 1 /\ gateCalls[i] = 1 /\ runNo = 2

\* C2: if the shutdown flag was set when the run's terminal status was
\* written, that status is CANCELLED, on every path of run().
C2_CancelledTakesPrecedence ==
  (run.status \in Terminal /\ sigAtIssue) => run.status = "CANCELLED"

\* C3: after run() has polled the flag as set, its counters and its unit
\* index no longer change; and a run signalled during acquisition that ends
\* without an error is CANCELLED, records the counters as they were at that
\* poll, and has executed neither enrichment nor aggregation.
C3_CancelledMidRun ==
  /\ observed =>
       /\ totalFound = obs.found
       /\ totalScraped = obs.scraped
       /\ totalPassed = obs.passed
       /\ unitIdx = obs.unit
  /\ (sigInAcq /\ err = "none" /\ run.status \in Terminal) =>
       /\ observed
       /\ run.status = "CANCELLED"
       /\ run.found = obs.found
       /\ run.scraped = obs.scraped
       /\ run.passed = obs.passed
       /\ ~enrichRan /\ ~aggRan

\* cancelled with an item processed and a unit never started
C3_Witness ==
  /\ sigInAcq /\ err = "none"
  /\ run.status = "CANCELLED"
  /\ run.scraped >= 1
  /\ unitIdx < nUnits

\* C4: the run record starts RUNNING, its status is written at most once,
\* to COMPLETED, FAILED or CANCELLED, and nothing later in the same run()
\* writes it again.
C4_StatusWrittenOnce ==
  /\ statusWrites <= 1
  /\ pc = "init" => run.status = "RUNNING"
  /\ statusWrites = 0 => run.status \in {"none", "RUNNING"}
  /\ statusWrites = 1 => run.status \in Terminal

\* a run whose try-block update was rejected and whose catch wrote FAILED
C4_Witness ==
  pc = "idle" /\ err = "write" /\ statusWrites = 1 /\ run.status = "FAILED"

\* C5: a unit of work that fails terminally does not abort the run and does
\* not make it FAILED.
C5_UnitFailureContinues ==
  err = "unit" => (pc # "catchWrite" /\ run.status # "FAILED")

\* C6: a run that ends without signal and without error is COMPLETED only
\* if it stored at least one new raw row, and FAILED if it stored none.
C6_CompletedNeedsNewItem ==
  (err = "none" /\ ~sigAtIssue /\ run.status \in Terminal) =>
    /\ run.status = "COMPLETED" => newThisRun > 0
    /\ newThisRun = 0 => run.status = "FAILED"

\* C7: an item already stored is not counted as acquired, and the gate is
\* not invoked for it.
C7_ExistingNotAcquired ==
  /\ totalScraped <= newThisRun
  /\ \A i \in Ids : gateCalls[i] <= rawItem[i]

Increasing(d) == \A i \in 1..(Len(d) - 1) : d[i] < d[i + 1]

\* C8: within one searchTweets call each backoff delay is strictly greater
\* than the one before, searchTweetsInternal is tried at most MAX_RETRIES
\* times, and a call that gives up on rate limiting made exactly MAX_RETRIES
\* rate-limited attempts.
C8_BackoffGrowth ==
  /\ Increasing(delays)
  /\ attempts <= MAX_RETRIES
  /\ (sPc = "failed" /\ IsRateLimitError(lastError)) =>
       (attempts = MAX_RETRIES /\ Len(delays) = MAX_RETRIES)

\* gave up after three rate-limited attempts
C8_Witness ==
  sPc = "failed" /\ Len(delays) = MAX_RETRIES /\ attempts = MAX_RETRIES

\* C9: an item whose language rule failed does not pass the gate whatever
\* its score, and gets no enriched placeholder.
C9_LanguageVeto ==
  (gatePc = "checked" /\ ~gateChecks.isLanguageValid) =>
    /\ ~gateResult.passed
    /\ dqmCheck[1] = <<FALSE>>
    /\ processed[1] = <<>>

\* language failed while the score alone reaches the threshold
C9_Witness ==
  /\ gatePc = "checked"
  /\ ~gateChecks.isLanguageValid
  /\ gateResult.score >= QualityThreshold(platform)
  /\ ~gateResult.passed

\* the outcome of rule r that counts as failed
FailedValue(r) == r \in {"isDuplicate", "isBot"}
FailRule(c, r) == [c EXCEPT ![r] = FailedValue(r)]

\* C10: the score lies in [0, 1] for every combination of rule outcomes and
\* failing one more rule never increases it.
C10_ScoreBoundedMonotone ==
  LET score == CalculateQualityScore(platform, gateChecks)
  IN /\ score \in 0..FullScore
     /\ gatePc = "checked" => gateResult.score = score
     /\ \A r \in DOMAIN gateChecks :
          CalculateQualityScore(platform, FailRule(gateChecks, r)) <= score

\* the score is held at 0 while a further rule can still be failed
C10_Witness ==
  /\ gatePc = "checked"
  /\ gateResult.score = 0
  /\ gateChecks.isDuplicate /\ gateChecks.isBot
  /\ \E r \in DOMAIN gateChecks : gateChecks[r] # FailedValue(r)


\* the verdict rows of id i hold one with passed = true
HasPassedVerdict(i) == \E k \in 1..Len(dqmCheck[i]) : dqmCheck[i][k]

C11_Store == \A i \in Ids : processed[i] # <<>> => HasPassedVerdict(i)

C11_Step ==
  \A i \in Ids :
    Len(processed'[i]) > Len(processed[i]) =>
      /\ processed'[i][Len(processed'[i])] = Placeholder
      /\ \E k \in 1..Len(dqmCheck'[i]) : dqmCheck'[i][k]

\* C11: in every store state an enriched row exists for a raw item only if
\* a verdict with passed = true exists for it, and every step that adds an
\* enriched row adds it as the NEUTRAL / 0 placeholder, for an item whose
\* verdict passed.
C11_EnrichedOnlyIfPassed == []C11_Store /\ [][C11_Step]_vars

\* the gate has passed an item and created its placeholder
C11_Witness ==
  \E i \in Ids :
    /\ dqmCheck[i] = <<TRUE>> /\ processed[i] = <<Placeholder>>
    /\ rawItem[i] = 1 /\ pc = "process"


\* C12: the sentiment body of an enriched row is written by enrichment
\* exactly once: a row enrichment has written is never selected as pending
\* again, whatever label and score it got.
C12_EnrichedOnce == pendingTweets.written0 = 0 /\ ~rewritten

\* C13: with no new rows arriving, repeated invocations of enrichment
\* eventually reach a state in which no row is pending.
C13_BacklogDrains == <>(Pending(backlog) = 0)

\* C15: once "makanan tidak sehat" is analysed, its raw score after the
\* negation step is minus one half of the raw score "makanan sehat" gets
\* (both before booster and context weighting)
C15_NegationHalves ==
  sentPc = "analysed" /\ cleanedText = MakananTidakSehat =>
    2 * sentiment.negated4 =
      0 - analyzeText(MakananSehat, normalizeText(MakananSehat)).negated4

\* C16: a text whose weighted score is exactly 0.8 is not labelled POSITIVE,
\* one whose weighted score is exactly -0.8 is not labelled NEGATIVE; either
\* is MIXED when it has positive and negative matches and NEUTRAL otherwise
C16_StrictThresholds ==
  sentPc = "analysed" /\
    sentiment.weightedScore \in {PositiveThreshold, NegativeThreshold} =>
      sentiment.label =
        IF sentiment.positiveMatches # <<>> /\ sentiment.negativeMatches # <<>>
          THEN "MIXED" ELSE "NEUTRAL"
C16_Witness ==
  /\ sentPc = "analysed"
  /\ cleanedText = AtNegativeThreshold
  /\ sentiment.weightedScore = NegativeThreshold
  /\ sentiment.label = "NEUTRAL"

\* C17: the reference text is labelled POSITIVE with normalized score 1.0
\* and confidence 1.0
C17_ReferenceResult ==
  sentPc = "analysed" /\ cleanedText = ReferenceText =>
    /\ sentiment.label = "POSITIVE"
    /\ sentiment.score = 1200
    /\ sentiment.confidence = 20
C17_Witness ==
  /\ sentPc = "analysed"
  /\ cleanedText = ReferenceText
  /\ sentiment.label = "POSITIVE"

\* C18: for the reference text the positive matches are exactly sangat,
\* bagus, sehat, baik, there is no negative match, the raw score is 4.0 and
\* 6.0 once boosted, the nutrition context is exactly makanan, sehat,
\* tumbuh, mbg, the weight 1.6 and the weighted score 9.6
C18_ReferenceDetails ==
  sentPc = "analysed" /\ cleanedText = ReferenceText =>
    /\ {sentiment.positiveMatches[k] :
          k \in 1..Len(sentiment.positiveMatches)} =
         {<<"s", "a", "n", "g", "a", "t">>, <<"b", "a", "g", "u", "s">>,
          <<"s", "e", "h", "a", "t">>, <<"b", "a", "i", "k">>}
    /\ Len(sentiment.positiveMatches) = 4
    /\ sentiment.negativeMatches = <<>>
    /\ sentiment.negated4 = 16
    /\ sentiment.raw4 = 24
    /\ {sentiment.nutritionContext[k] :
          k \in 1..Len(sentiment.nutritionContext)} =
         {<<"m", "a", "k", "a", "n", "a", "n">>, <<"s", "e", "h", "a", "t">>,
          <<"t", "u", "m", "b", "u", "h">>, <<"m", "b", "g">>}
    /\ sentiment.weight100 = 160
    /\ sentiment.weightedScore = 3840

C20_FailedRunVisible ==
  run.status \in {"FAILED", "CANCELLED"} =>
    /\ run.found = totalFound
    /\ run.scraped = totalScraped
    /\ run.passed = totalPassed
    /\ run.status = "FAILED" => run.errorMessage

\* C21: a run ends only through the cleanup step: every step after which
\* run() is over, the step of a run that starts and returns at once
\* included, is the step of the finally block
C21_CleanupOnEveryExit ==
  [][(pc' = "idle" /\ (pc # "idle" \/ runNo' # runNo)) => pc = "cleanup"]_vars

\* C22: with the stored rows unchanged, after any number of invocations of
\* updateDailyAggregation, in sequence or interleaved, the DailyAggregation
\* row is the row one invocation leaves; nothing is added up
C22_AggregationIdempotent ==
  dailyAggregation =
    IF aggUpserts = 0 THEN NoAggregate
    ELSE Derive(aggStore) @@ [exists |-> TRUE]
C22_Witness ==
  /\ aggUpserts >= 3
  /\ \A c \in Callers : aggCalls[c] = MaxAggCalls
  /\ dailyAggregation.exists
  /\ dailyAggregation.analyzed > 0
  /\ dailyAggregation.analyzed = Analyzed(aggStore)

\* C23: without credentials no searchTweets call fails for want of them
C23_AnonymousNeverFails ==
  ~credentials => ~(sPc = "failed" /\ lastError = LoginRequired)

\* C25: a call that failed on rate limiting detected from the rendered page,
\* before or during scrolling, had gone through the backoff path as often as
\* the retry bound allows
C25_PageRateLimitBacksOff ==
  sPc = "failed" /\ lastError \in {PageRateLimit, ScrollRateLimit} =>
    retries = MAX_RETRIES /\ Len(delays) = MAX_RETRIES

\* C26: a call that failed on a navigation timeout had retried it with
\* backoff until the retry bound was exhausted
C26_NavigationTimeoutRetried ==
  sPc = "failed" /\ lastError = NavigationTimeout =>
    retries = MAX_RETRIES /\ attempts = MAX_RETRIES

\* C24: the comments collectVideoComments accumulates for a video never
\* exceed the video's cap
C24_CapRespected ==
  colPc # "idle" => allComments <= maxComments /\ totalCollected <= maxComments

\* C27: a searchTweets call starts its search no earlier than
\* REQUEST_DELAY_MS after the timestamp the previous call recorded, and the
\* timestamp it records is no earlier than that one
C27_SingleSlotThrottle ==
  rlPc = "searching" =>
    /\ searchStartedAt - previousRequestTime >= REQUEST_DELAY_MS
    /\ lastRequestTime >= previousRequestTime
\* a second call that came too early, waited and then started
C27_Witness ==
  /\ rlPc = "searching"
  /\ previousRequestTime > 0
  /\ wakeAt = searchStartedAt
  /\ searchStartedAt = previousRequestTime + REQUEST_DELAY_MS

\* C28: a button step of performLogin whose flag a strategy has set is a
\* step whose control was activated (so a step in which no strategy
\* activates the control throws)
C28_SuccessMeansActivated ==
  \A s \in ButtonSteps : clickedBy[s] # "none" => s \in activated

\* C29: the tweets searchTweetsInternal returns hold no item whose identity
\* extraction failed in the listing pass and that was only recorded with its
\* position (every such item was opened in its detail view and re-extracted
\* before the return)
C29_NoDeferredItemReturned ==
  lsPc = "process" =>
    \A i \in 1..Len(lsTweets) : lsTweets[i].elementIndex = NoIndex

\* C30: an extracted item with an empty id or an empty text is never stored
\* as a raw row, never handed to the gate, never counted in totalScraped
\* and never logged as an error
C30_EmptyItemSkipped ==
  \A row \in lsStored \cup lsGated \cup lsCounted \cup lsErrors :
    row.id # 0 /\ row.text

\* C31: the list searchTweetsInternal returns for a keyword holds no two
\* items of the same id, holds its items in the order in which their ids
\* were first met over the listing passes, and has at most maxTweets items
C31_DistinctInEncounterOrder ==
  enPc = "returned" =>
    /\ Len(enResult) <= maxTweets
    /\ \A i \in 1..Len(enResult) : firstAt[enResult[i].id] > 0
    /\ \A i, j \in 1..Len(enResult) :
         i < j => /\ enResult[i].id # enResult[j].id
                  /\ firstAt[enResult[i].id] < firstAt[enResult[j].id]
C31_Witness ==
  /\ enPc = "returned"
  /\ Len(enResult) = 2
  /\ enResult[1].id = 1
  /\ enPasses = 2
  /\ enClock > 2

\* C32: once the cancellation flag is set during a search, the scroll loop
\* runs at most the one turn that was in flight before the search stops
C32_StopsAfterTurnInFlight ==
  sigAtScroll >= 0 => scrolls <= sigAtScroll + 1

\* C39 as stated: the turns of the scroll loop in one search are bounded
\* whatever the feed does: each attempt ends after at most maxTweets turns
\* that brought something new, each followed by fewer than maxScrollAttempts
\* turns that brought nothing, and a last run of maxScrollAttempts
C39_ScrollTurnsBounded ==
  scrolls <= attempts * (MaxBatch + 1) * maxScrollAttempts

\* C39 amended: the turns of the scroll loop are bounded only in the number
\* of turns that found the height grown: every run of turns without growth
\* is at most maxScrollAttempts long, so the loop ends once the feed stops
\* growing, and a feed that grows on every scroll without yielding a new id
\* keeps it turning
C39_TurnsBoundedByGrowth ==
  scrolls <= (grown + attempts) * maxScrollAttempts
C39_Witness ==
  /\ sPc = "scroll"
  /\ scrolls = MaxScrolls
  /\ grown = MaxScrolls
  /\ tweets = <<>>
  /\ attempts = 1

\* the order of the rules in which C33 looks for the reason, and the reason
\* string that names each
RulePriority ==
  <<"duplicate", "language", "bot", "length", "emoji", "repeated", "score">>
ReasonOfRule(rule) == IF rule = "length" THEN "short" ELSE rule

\* a rule of the order is unmet; tooLong tells whether an item over the
\* maximum length counts as failing the length rule
RuleUnmet(rule, tooLong) ==
  CASE rule = "duplicate" -> gateChecks.isDuplicate
    [] rule = "language" -> ~gateChecks.isLanguageValid
    [] rule = "bot" -> gateChecks.isBot
    [] rule = "length" ->
         ~gateChecks.isMinLength \/ (tooLong /\ ~gateChecks.isMaxLength)
    [] rule = "emoji" ->
         platform = "youtube" /\ ~gateChecks.hasExcessiveEmojis
    [] rule = "repeated" ->
         platform = "youtube" /\ ~gateChecks.hasRepeatedText
    [] rule = "score" -> TRUE

FirstUnmet(tooLong) ==
  LET k == CHOOSE i \in 1..Len(RulePriority) :
             /\ RuleUnmet(RulePriority[i], tooLong)
             /\ \A j \in 1..(i - 1) : ~RuleUnmet(RulePriority[j], tooLong)
  IN RulePriority[k]

\* C33 as stated: a failed verdict carries the reason of the first unmet
\* rule in the order duplicate, language, bot, length (too short or too
\* long), emoji, repeated text, score message; a passed verdict carries none
C33_FirstUnmetRule ==
  gatePc = "checked" =>
    gateResult.reason = IF gateResult.passed THEN "none"
                        ELSE ReasonOfRule(FirstUnmet(TRUE))

\* C33 amended: the same with the length rule meaning the minimum length
\* only; an item over the maximum length is never given a length reason
C33_FirstUnmetRuleMinLength ==
  gatePc = "checked" =>
    gateResult.reason = IF gateResult.passed THEN "none"
                        ELSE ReasonOfRule(FirstUnmet(FALSE))
C33_Witness ==
  /\ gatePc = "checked"
  /\ platform = "youtube"
  /\ ~gateResult.passed
  /\ ~gateChecks.isMaxLength
  /\ gateChecks.isMinLength
  /\ ~gateChecks.isDuplicate /\ gateChecks.isLanguageValid /\ ~gateChecks.isBot
  /\ gateResult.reason = "emoji"

\* C40: on both platforms an item for which the duplicate rule fired does
\* not pass the gate, and no placeholder row is created for it
C40_DuplicateNeverPasses ==
  gatePc = "checked" /\ gateChecks.isDuplicate =>
    ~gateResult.passed /\ processed[1] = <<>>

\* C34: every field of the DailyAggregation row written for today is
\* computed from the records of today only: the counts, the sentiment
\* distribution, the average score and the keyword counts are those of
\* today's rows, whatever the rows of other days hold
C34_OnlyTodaysRecords ==
  dailyAggregation.exists =>
    /\ dailyAggregation.analyzed = Analyzed(aggStore)
    /\ dailyAggregation.sentimentPositive = aggStore.POSITIVE
    /\ dailyAggregation.sentimentNegative = aggStore.NEGATIVE
    /\ dailyAggregation.sentimentNeutral = aggStore.NEUTRAL
    /\ dailyAggregation.sentimentMixed = aggStore.MIXED
    /\ dailyAggregation.avgSentimentScore
         = <<aggStore.scoreSum, Analyzed(aggStore)>>
    /\ dailyAggregation.collected = aggStore.checks
    /\ dailyAggregation.passedDqm = aggStore.passed
    /\ dailyAggregation.topKeywords = aggStore.kwToday

\* C35: every stored raw item that a later processing step has met again
\* has exactly one verdict (the one written in the step that stored it, or
\* the one a later run wrote because the gate step had failed)
C35_OneVerdictPerRawItem ==
  \A i \in Ids : rawItem[i] > 0 /\ i \in skipped => Len(dqmCheck[i]) = 1

\* C36: once two interleaved runs are through with an external id, the
\* store holds one raw row and one verdict for it, and the run that did not
\* store it has skipped it: no error was raised for the item
C36_LoserSkips ==
  \A i \in RaceIds :
    (\A r \in Runs : raceOutcome[r][i] # "none") =>
      /\ raceRaw[i] = 1
      /\ raceChecks[i] = 1
      /\ \E r \in Runs : raceOutcome[r][i] = "saved"
      /\ \A r \in Runs : raceOutcome[r][i] \in {"saved", "skipped"}

\* C37: when two concurrent enrichment invocations are both through, every
\* row holds the label, the score and the keyword tokens one invocation
\* alone computes from the row's text, whichever way their writes interleaved
C37_ConcurrentEnrichmentAgrees ==
  (\A c \in Callers : cePc[c] = "done") =>
    \A i \in RowIds :
      /\ ceRows[i].label = analyzeText(ceRows[i].text, ceRows[i].text).label
      /\ ceRows[i].score = analyzeText(ceRows[i].text, ceRows[i].text).score
      /\ ceRows[i].tokens = KeywordTokens(ceRows[i].text)
C37_Witness ==
  /\ \A c \in Callers : cePc[c] = "done" /\ Len(ceSnap[c]) = MaxEnrichRows
  /\ ceRows[1].label = "POSITIVE"
  /\ ceRows[1].tokens # NoTokens

\* C38: at every point of a run passed <= acquired <= found, with the items
\* whose processing threw counted in found and not in acquired; no counter
\* decreases during a run; and the step in which processTweet throws leaves
\* acquired and passed as they were and the run inside its loop
C38_Counters ==
  /\ totalPassed <= totalScraped
  /\ totalScraped + itemErrors <= totalFound
C38_Step ==
  /\ runNo' = runNo =>
       /\ totalFound' >= totalFound
       /\ totalScraped' >= totalScraped
       /\ totalPassed' >= totalPassed
  /\ (runNo' = runNo /\ itemErrors' > itemErrors) =>
       /\ totalFound' = totalFound
       /\ totalScraped' = totalScraped
       /\ totalPassed' = totalPassed
       /\ err' = "none"
       /\ pc' \in AcqPcs \cup {"enrich", "writeStatus"}
C38_CountersOrdered == []C38_Counters /\ [][C38_Step]_vars
C38_Witness ==
  /\ itemErrors > 0
  /\ totalScraped > 0
  /\ totalPassed > 0
  /\ totalScraped + itemErrors = totalFound
  /\ run.status = "COMPLETED"

====
